---- MODULE Spec2Model ----
(***************************************************************************)
(* A model of simple_chatbot: the bounded conversation memory              *)
(* (memory.py), the response cleaning and the conversational turn          *)
(* (chatbot.py) and the keyword retrieval (knowledge_base.py).             *)
(*                                                                         *)
(* A Python str is a sequence of characters, each character a one-letter   *)
(* TLA+ string.  A fixed literal of the program that no operation looks    *)
(* into (the apology text, an error's detail) is carried as one element.   *)
(***************************************************************************)
EXTENDS Integers, Sequences, FiniteSets, TLC

VARIABLES
    memory_limit,   \* ConversationMemory.memory_limit
    messages,       \* ConversationMemory._messages, oldest first
    added,          \* history: the messages added since construction or the last clear()
    pre,            \* history: _messages as the last operation found it
    op,             \* history: the operation that produced this state
    response,       \* the raw backend response handed to _clean_response
    parts,          \* history: the pieces the raw response was put together from
    cleaned,        \* _clean_response(response)
    recleaned,      \* _clean_response(cleaned)
    kb_enabled,     \* SimpleKnowledgeBase.enabled
    knowledge_data, \* SimpleKnowledgeBase.knowledge_data, in the dict's insertion order
    kb_query,       \* the query of the last search
    search_args,    \* max_results and min_relevance_score of the last search
    kb_results,     \* the list the last search returned
    kb_pre,         \* history: knowledge_data as the last operation found it
    kb_raised,      \* history: the exception the last search raised, or "none"
    kb_fault,       \* history: the exception put into the last retrieval, of RetrievalFaults
    config,         \* SimpleChatbot.config
    disk,           \* the knowledge file at config.knowledge_file
    turn_input,     \* history: the user_input of the last chat
    outcome,        \* history: what the backend did in the last chat
    sent,           \* history: the prompts the last operation handed to the backend
    ret,            \* history: what the last operation returned
    raised,         \* history: the exception the last operation raised, or "none"
    args,           \* history: the arguments of the last read of the memory
    steps,          \* history: the steps the current call of chat has taken, in order
    turn_prompt     \* chat's local formatted_prompt, once _format_prompt has returned

memVars == <<memory_limit, messages, added, pre>>
cleanVars == <<response, parts, cleaned, recleaned>>
kbVars == <<kb_enabled, knowledge_data, kb_query, search_args, kb_results, kb_pre, kb_raised, kb_fault>>
sessVars == <<config, disk, turn_input, outcome, sent, ret, raised>>
callVars == <<args, steps, turn_prompt>>
vars == <<memory_limit, messages, added, pre, op, response, parts, cleaned, recleaned,
          kb_enabled, knowledge_data, kb_query, search_args, kb_results, kb_pre, kb_raised, kb_fault,
          config, disk, turn_input, outcome, sent, ret, raised,
          args, steps, turn_prompt>>

\* ---------------------------------------------------------------- bounds

\* the largest pair-limit a memory is constructed with
MaxLimit == 2
\* the number of add calls explored after construction or a clear()
MaxAdds == 6
\* the number of whitespace characters around each piece of a raw response
MaxPad == 1
\* the number of entries of a knowledge file
MaxEntries == 2

\* ------------------------------------------------------------ Python str

\* the characters str.strip() takes for whitespace (those the model's inputs use)
Whitespace == {" ", "\t", "\n"}

RECURSIVE lstrip(_)
\* str.lstrip(): drop leading whitespace
lstrip(s) ==
    IF s # <<>> /\ s[1] \in Whitespace THEN lstrip(Tail(s)) ELSE s

RECURSIVE rstrip(_)
\* str.rstrip(): drop trailing whitespace
rstrip(s) ==
    IF s # <<>> /\ s[Len(s)] \in Whitespace THEN rstrip(SubSeq(s, 1, Len(s) - 1)) ELSE s

\* str.strip(): drop leading and trailing whitespace
strip(s) == rstrip(lstrip(s))

\* str.startswith(prefix)
startswith(s, prefix) ==
    /\ Len(s) >= Len(prefix)
    /\ SubSeq(s, 1, Len(prefix)) = prefix

\* s[n:], the slice from index n (0-based) to the end
slice_from(s, n) == SubSeq(s, n + 1, Len(s))

\* str.lower() on one character
lower_char(c) ==
    CASE c = "A" -> "a" [] c = "B" -> "b" [] c = "C" -> "c" [] c = "D" -> "d"
      [] c = "E" -> "e" [] c = "F" -> "f" [] c = "G" -> "g" [] c = "H" -> "h"
      [] c = "I" -> "i" [] c = "J" -> "j" [] c = "K" -> "k" [] c = "L" -> "l"
      [] c = "M" -> "m" [] c = "N" -> "n" [] c = "O" -> "o" [] c = "P" -> "p"
      [] c = "Q" -> "q" [] c = "R" -> "r" [] c = "S" -> "s" [] c = "T" -> "t"
      [] c = "U" -> "u" [] c = "V" -> "v" [] c = "W" -> "w" [] c = "X" -> "x"
      [] c = "Y" -> "y" [] c = "Z" -> "z" [] OTHER -> c

\* str.lower()
lower(s) == [i \in 1..Len(s) |-> lower_char(s[i])]

RECURSIVE split_from(_, _, _)
\* the words of s[i:], given the word begun before position i
split_from(s, i, word) ==
    IF i > Len(s) THEN (IF word = <<>> THEN <<>> ELSE <<word>>)
    ELSE IF s[i] \in Whitespace
         THEN (IF word = <<>> THEN <<>> ELSE <<word>>) \o split_from(s, i + 1, <<>>)
         ELSE split_from(s, i + 1, Append(word, s[i]))

\* str.split(): the maximal runs of non-whitespace characters, in order
split(s) == split_from(s, 1, <<>>)

RECURSIVE lstrip_chars(_, _)
lstrip_chars(s, chars) ==
    IF s # <<>> /\ s[1] \in chars THEN lstrip_chars(Tail(s), chars) ELSE s

RECURSIVE rstrip_chars(_, _)
rstrip_chars(s, chars) ==
    IF s # <<>> /\ s[Len(s)] \in chars
    THEN rstrip_chars(SubSeq(s, 1, Len(s) - 1), chars) ELSE s

\* str.strip(chars): drop the leading and trailing characters that are in chars
strip_chars(s, chars) == rstrip_chars(lstrip_chars(s, chars), chars)

\* ---------------------------------------------------- llm_client.ChatMessage

ChatMessage(role, content) == [role |-> role, content |-> content]

Roles == {"user", "assistant", "system"}

\* ------------------------------------------------ memory.ConversationMemory

\* deque(maxlen = memory_limit * 2)
maxlen == memory_limit * 2

\* mutant: a list that is never trimmed
deque_append_unbounded(dq, item) == Append(dq, item)

\* mutant: a full deque drops from the right end, the newest item
deque_append_drop_newest(dq, item) ==
    IF Len(dq) + 1 > maxlen
    THEN IF dq = <<>> THEN <<>> ELSE Append(SubSeq(dq, 1, Len(dq) - 1), item)
    ELSE Append(dq, item)

\* mutant: a full deque whose oldest item is the system message drops the item
\* after it
deque_append_keeps_system(dq, item) ==
    IF Len(dq) + 1 > maxlen
    THEN IF dq # <<>> /\ dq[1].role = "system"
         THEN <<dq[1]>> \o Tail(Tail(Append(dq, item)))
         ELSE Tail(Append(dq, item))
    ELSE Append(dq, item)

\* deque.append on a deque with maxlen: the new item goes to the right end and,
\* when the deque was full, one item is dropped from the left end
deque_append(dq, item) ==
    IF Len(dq) + 1 > maxlen THEN Tail(Append(dq, item)) ELSE Append(dq, item)

add_message(msgs, role, content) == deque_append(msgs, ChatMessage(role, content))

add_user_message(msgs, content) == add_message(msgs, "user", content)

add_assistant_message(msgs, content) == add_message(msgs, "assistant", content)

clear(msgs) == <<>>

\* list(self._messages)
get_messages(msgs) == msgs

\* seq[start:] for a start of either sign: a negative start counts from the
\* end, and a start before the first item is the first item
slice_from_signed(seq, start) ==
    LET from == IF start < 0 THEN start + Len(seq) ELSE start
        first == IF from < 0 THEN 0 ELSE from
    IN  SubSeq(seq, first + 1, Len(seq))

\* ConversationMemory.get_recent_messages: count is None or an int
get_recent_messages(msgs, count) ==
    IF count = <<>> THEN get_messages(msgs)
    ELSE slice_from_signed(msgs, 0 - count[1])

get_message_count(msgs) == Len(msgs)

\* ------------------------------------------ chatbot.SimpleChatbot._clean_response

\* prefixes_to_remove, in the order the loop tries them
prefixes_to_remove == <<
    <<"A", "s", "s", "i", "s", "t", "a", "n", "t", ":">>,
    <<"a", "s", "s", "i", "s", "t", "a", "n", "t", ":">>,
    <<"A", "I", ":">>,
    <<"a", "i", ":">>,
    <<"B", "o", "t", ":">>,
    <<"b", "o", "t", ":">> >>

\* the positions in prefixes_to_remove of the prefixes s starts with
matching_prefixes(s) ==
    {i \in 1..Len(prefixes_to_remove) : startswith(s, prefixes_to_remove[i])}

\* the smallest member of a non-empty set of integers
Min(S) == CHOOSE x \in S : \A y \in S : x <= y

\* mutant: the prefix is cut and what follows is not stripped
_clean_response_no_inner_strip(raw) ==
    LET s == strip(raw)
        hit == matching_prefixes(s)
    IN  IF hit = {} THEN s
        ELSE slice_from(s, Len(prefixes_to_remove[Min(hit)]))

\* mutant: only the capitalised spellings are in the list
_clean_response_capitalised_only(raw) ==
    LET s == strip(raw)
        hit == {i \in matching_prefixes(s) : i % 2 = 1}
    IN  IF hit = {} THEN s
        ELSE strip(slice_from(s, Len(prefixes_to_remove[Min(hit)])))

\* strip the response, then cut the first prefix of the list it starts with (the
\* loop breaks at the first match) and strip what is left
_clean_response(raw) ==
    LET s == strip(raw)
        hit == matching_prefixes(s)
    IN  IF hit = {} THEN s
        ELSE strip(slice_from(s, Len(prefixes_to_remove[Min(hit)])))

\* -------------------------------------------- knowledge_base.SimpleKnowledgeBase

\* Optional[str]: None, or a str
None == <<>>
Some(x) == <<x>>

\* the truth value Python gives an Optional[str]: None and "" are false
truthy(opt) == opt # None /\ opt[1] # <<>>

\* KnowledgeEntry(keywords, content, category)
KnowledgeEntry(keywords, content, category) ==
    [keywords |-> keywords, content |-> content, category |-> category]

\* a float that is the quotient of two small integers
Ratio(num, den) == [num |-> num, den |-> den]

\* a >= b on such floats
ratio_ge(a, b) == a.num * b.den >= b.num * a.den

\* a > b on such floats
ratio_gt(a, b) == a.num * b.den > b.num * a.den

\* the characters word.strip(".,!?;:()[]{}") removes
Punctuation == {".", ",", "!", "?", ";", ":", "(", ")", "[", "]", "{", "}"}

\* the elements of a sequence
Range(seq) == {seq[i] : i \in 1..Len(seq)}

\* {word.strip(punctuation) for word in query.lower().split() if len(word) > 2}
_extract_keywords(query) ==
    LET words == split(lower(query))
    IN  {strip_chars(words[i], Punctuation) : i \in {j \in 1..Len(words) : Len(words[j]) > 2}}

\* {kw.lower() for kw in entry.keywords}
entry_keywords(entry) == {lower(kw) : kw \in Range(entry.keywords)}

\* mutant: the score is divided by the length of the keyword list as written
score_by_list_length(matched, entry) == Ratio(Cardinality(matched), Len(entry.keywords))

\* relevance_score = len(matched_keywords) / len(entry_keywords)
relevance_score(matched, entry) ==
    Ratio(Cardinality(matched), Cardinality(entry_keywords(entry)))

\* RetrievalResult(...) for one entry; matched_keywords is list(set), whose order
\* is the set's iteration order: the model keeps the set
RetrievalResult(item, matched) ==
    [entry_id |-> item.entry_id,
     content |-> item.entry.content,
     relevance_score |-> relevance_score(matched, item.entry),
     matched_keywords |-> matched,
     category |-> item.entry.category]

RECURSIVE scan(_, _, _, _)
\* the loop over knowledge_data.items() from position i: the results appended
scan(data, i, query_keywords, min_relevance_score) ==
    IF i > Len(data) THEN <<>>
    ELSE LET matched == query_keywords \cap entry_keywords(data[i].entry)
             rest == scan(data, i + 1, query_keywords, min_relevance_score)
         IN  IF matched # {}
                /\ ratio_ge(relevance_score(matched, data[i].entry), min_relevance_score)
             THEN <<RetrievalResult(data[i], matched)>> \o rest
             ELSE rest

RECURSIVE insert_before_equal(_, _)
\* mutant: r goes before the items that score the same, so that the sort turns
\* the order of equal scores around
insert_before_equal(sorted, r) ==
    IF sorted = <<>> THEN <<r>>
    ELSE IF ratio_gt(sorted[1].relevance_score, r.relevance_score)
         THEN <<sorted[1]>> \o insert_before_equal(Tail(sorted), r)
         ELSE <<r>> \o sorted

RECURSIVE insert_by_score(_, _)
\* r put into a list sorted by descending score, after the items that score at
\* least as much
insert_by_score(sorted, r) ==
    IF sorted = <<>> THEN <<r>>
    ELSE IF ratio_ge(sorted[1].relevance_score, r.relevance_score)
         THEN <<sorted[1]>> \o insert_by_score(Tail(sorted), r)
         ELSE <<r>> \o sorted

RECURSIVE sort_by_score(_, _)
\* results.sort(key=relevance_score, reverse=True): stable, so equal scores keep
\* their order
sort_by_score(results, n) ==
    IF n = 0 THEN <<>>
    ELSE insert_by_score(sort_by_score(results, n - 1), results[n])

\* mutant: the slice keeps the end of the list
take_last(seq, n) == SubSeq(seq, IF n < Len(seq) THEN Len(seq) - n + 1 ELSE 1, Len(seq))

\* results[:max_results]
take(seq, n) == SubSeq(seq, 1, IF n < Len(seq) THEN n ELSE Len(seq))

\* how a call ends: with a value returned, or with an exception raised
Returned(value) == [raised |-> "none", value |-> value]
Raised(exc) == [raised |-> exc, value |-> <<>>]

\* the exceptions put into a retrieval from outside, as the tests do by patching:
\* none, one raised inside the try block of search ("scoring"), one raised by
\* the call of knowledge_base.search itself ("search")
RetrievalFaults == {"none", "scoring", "search"}

\* mutant: the score is computed before the test of matched_keywords, so that an
\* entry without keywords is divided by
divides_unguarded(data, query_keywords) ==
    \E i \in 1..Len(data) : Cardinality(entry_keywords(data[i].entry)) = 0

\* whether the loop of search reaches len(matched_keywords) / len(entry_keywords)
\* with no entry_keywords: the division is under "if matched_keywords:"
divides_by_zero(data, query_keywords) ==
    \E i \in 1..Len(data) :
        /\ query_keywords \cap entry_keywords(data[i].entry) # {}
        /\ Cardinality(entry_keywords(data[i].entry)) = 0

\* the try block of search when nothing in it raises
search_try(data, query, max_results, min_relevance_score) ==
    LET found == scan(data, 1, _extract_keywords(query), min_relevance_score)
    IN  take(sort_by_score(found, Len(found)), max_results)

\* SimpleKnowledgeBase.search, as the caller sees it
search(enabled, data, query, max_results, min_relevance_score, fault) ==
    IF fault = "search" THEN Raised("Exception")
    ELSE IF ~enabled \/ strip(query) = <<>> THEN Returned(<<>>)
    ELSE IF fault = "scoring" THEN Returned(<<>>)
    ELSE IF divides_by_zero(data, _extract_keywords(query)) THEN Returned(<<>>)
    ELSE Returned(search_try(data, query, max_results, min_relevance_score))

\* a knowledge file: absent, not valid JSON ("malformed"), or a JSON object whose
\* items are (entry_id, entry_data) in file order; a required field an entry_data
\* lacks is None
File(kind, items) == [kind |-> kind, items |-> items]

RawEntry(entry_id, keywords, content, category) ==
    [entry_id |-> entry_id, keywords |-> keywords, content |-> content, category |-> category]

\* whether KnowledgeEntry(**entry_data) validates: keywords and content are required
validates(raw) == raw.keywords # None /\ raw.content # None

\* self.knowledge_data[entry_id] = entry: a new key goes last, a known key keeps
\* its place
dict_set(data, entry_id, entry) ==
    IF \E i \in 1..Len(data) : data[i].entry_id = entry_id
    THEN [i \in 1..Len(data) |->
            IF data[i].entry_id = entry_id
            THEN [entry_id |-> entry_id, entry |-> entry] ELSE data[i]]
    ELSE Append(data, [entry_id |-> entry_id, entry |-> entry])

RECURSIVE load_items(_, _, _)
\* the loop of _load_knowledge from item i: it stops at the first entry that
\* does not validate, with the entries before it already stored
load_items(data, items, i) ==
    IF i > Len(items) THEN [raised |-> "none", knowledge_data |-> data]
    ELSE IF ~validates(items[i]) THEN [raised |-> "ValueError", knowledge_data |-> data]
    ELSE load_items(
            dict_set(data, items[i].entry_id,
                     KnowledgeEntry(items[i].keywords[1], items[i].content[1], items[i].category)),
            items, i + 1)

\* mutant: the test for the file is inside the try block, whose except clause
\* turns every exception into ValueError
_load_knowledge_wraps_not_found(data, file) ==
    IF file.kind \in {"absent", "malformed"}
    THEN [raised |-> "ValueError", knowledge_data |-> data]
    ELSE load_items(data, file.items, 1)

\* SimpleKnowledgeBase._load_knowledge on a table that holds data
_load_knowledge(data, file) ==
    IF file.kind = "absent" THEN [raised |-> "FileNotFoundError", knowledge_data |-> data]
    ELSE IF file.kind = "malformed" THEN [raised |-> "ValueError", knowledge_data |-> data]
    ELSE load_items(data, file.items, 1)

\* mutant: reload loads over the table it holds
reload_no_clear(enabled, data, file) ==
    IF enabled THEN _load_knowledge(data, file)
    ELSE [raised |-> "none", knowledge_data |-> data]

\* mutant: reload loads whether the store is enabled or not
reload_unguarded(enabled, data, file) == _load_knowledge(<<>>, file)

\* SimpleKnowledgeBase.reload on a table that holds data: knowledge_data.clear(),
\* then _load_knowledge(); nothing when the store is disabled
reload(enabled, data, file) ==
    IF enabled THEN _load_knowledge(<<>>, file)
    ELSE [raised |-> "none", knowledge_data |-> data]

\* SimpleKnowledgeBase.get_entry: dict.get(entry_id), None without the key
get_entry(data, entry_id) ==
    IF \E i \in 1..Len(data) : data[i].entry_id = entry_id
    THEN Some((CHOOSE item \in Range(data) : item.entry_id = entry_id).entry)
    ELSE None

\* SimpleKnowledgeBase.get_all_entries: a copy of the dict
get_all_entries(data) == data

\* the category strings of the knowledge files, in the order sorted() gives
\* them (code point order: capitals first)
CategoryOrder == <<
    <<"L", "o", "r", "e">>,
    <<"c", "h", "a", "r", "a", "c", "t", "e", "r">>,
    <<"l", "o", "r", "e">> >>

RECURSIVE select(_, _)
\* the items of a sequence that are in a set, in the sequence's order
select(seq, S) ==
    IF seq = <<>> THEN <<>>
    ELSE (IF seq[1] \in S THEN <<seq[1]>> ELSE <<>>) \o select(Tail(seq), S)

\* sorted(categories) for a set of category strings
sorted_categories(categories) == select(CategoryOrder, categories)

\* SimpleKnowledgeBase.get_categories
get_categories(data) ==
    sorted_categories({data[i].entry.category[1] :
                i \in {j \in 1..Len(data) : truthy(data[j].entry.category)}})

\* SimpleKnowledgeBase.search_by_category
search_by_category(data, category) ==
    LET hit(item) ==
            /\ truthy(item.entry.category)
            /\ lower(item.entry.category[1]) = lower(category)
        entries == [i \in 1..Len(data) |-> data[i].entry]
        RECURSIVE pick(_)
        pick(i) ==
            IF i > Len(data) THEN <<>>
            ELSE (IF hit(data[i]) THEN <<entries[i]>> ELSE <<>>) \o pick(i + 1)
    IN  pick(1)

RECURSIVE sum_keywords(_)
\* sum(len(entry.keywords) for entry in knowledge_data.values())
sum_keywords(data) ==
    IF data = <<>> THEN 0 ELSE Len(data[1].entry.keywords) + sum_keywords(Tail(data))

\* SimpleKnowledgeBase.get_stats (without the path of the file)
get_stats(enabled, data) ==
    IF ~enabled THEN [enabled |-> FALSE, total_entries |-> 0]
    ELSE [enabled |-> TRUE,
          total_entries |-> Len(data),
          total_categories |-> Len(get_categories(data)),
          categories |-> get_categories(data),
          total_keywords |-> sum_keywords(data)]

RECURSIVE join(_, _)
\* sep.join(lines)
join(lines, sep) ==
    IF lines = <<>> THEN <<>>
    ELSE IF Len(lines) = 1 THEN lines[1]
    ELSE lines[1] \o sep \o join(Tail(lines), sep)

NL == <<"\n">>

\* str(i) for the numbers the model prints
str_int(i) == <<(<<"1", "2", "3", "4", "5", "6", "7", "8", "9", "10", "11">>)[i]>>

\* the marker lines of the context block (the first without its accent)
RAG_OPEN == <<"[CONTEXTO RAG - Informacion relevante:]">>
RAG_CLOSE == <<"[FIN CONTEXTO RAG]">>

\* f"{i}. {result.content}{category_info}"
context_line(i, result) ==
    str_int(i) \o <<".", " ">> \o result.content
        \o (IF truthy(result.category) THEN <<" ", "(">> \o result.category[1] \o <<")">> ELSE <<>>)

\* SimpleKnowledgeBase.format_context
format_context(results) ==
    IF results = <<>> THEN <<>>
    ELSE join(<<RAG_OPEN>> \o [i \in 1..Len(results) |-> context_line(i, results[i])]
                \o <<RAG_CLOSE>>, NL)

\* ------------------------------------------------------ memory.format_for_prompt

\* role.title()
title(role) ==
    CASE role = "user" -> <<"U", "s", "e", "r">>
      [] role = "assistant" -> <<"A", "s", "s", "i", "s", "t", "a", "n", "t">>
      [] role = "system" -> <<"S", "y", "s", "t", "e", "m">>

\* the messages a filter keeps, in order
RECURSIVE keep(_, _)
keep(msgs, include_system) ==
    IF msgs = <<>> THEN <<>>
    ELSE (IF ~include_system /\ msgs[1].role = "system" THEN <<>> ELSE <<msgs[1]>>)
            \o keep(Tail(msgs), include_system)

format_for_prompt(msgs, include_system) ==
    LET kept == keep(msgs, include_system)
    IN  join([i \in 1..Len(kept) |-> title(kept[i].role) \o <<":", " ">> \o kept[i].content], NL)

\* --------------------------------------------------------- chatbot.SimpleChatbot

\* the fields of ChatbotConfig the session reads
ChatbotConfig(system_prompt, conversation_memory_limit, rag_enabled, rag_max_results, rag_min_relevance) ==
    [system_prompt |-> system_prompt,
     conversation_memory_limit |-> conversation_memory_limit,
     rag_enabled |-> rag_enabled,
     rag_max_results |-> rag_max_results,
     rag_min_relevance |-> rag_min_relevance]

\* ChatbotConfig.rag_max_results, its default
DefaultRagMaxResults == 3

\* the default knowledge file _initialize_knowledge_base writes when there is none
default_knowledge ==
    File("object", <<
        RawEntry("welcome",
                 Some(<< <<"h", "e", "l", "l", "o">>, <<"h", "i">>,
                         <<"w", "e", "l", "c", "o", "m", "e">>, <<"s", "t", "a", "r", "t">> >>),
                 Some(<<"Bienvenido al chatbot con RAG!">>),
                 Some(<<"general">>)) >>)

\* SimpleKnowledgeBase(knowledge_file, enabled): the exception raised, if any, and
\* the object's enabled and knowledge_data
SimpleKnowledgeBase(file, enabled) ==
    IF enabled
    THEN LET loaded == _load_knowledge(<<>>, file)
         IN  [raised |-> loaded.raised, enabled |-> TRUE, knowledge_data |-> loaded.knowledge_data]
    ELSE [raised |-> "none", enabled |-> FALSE, knowledge_data |-> <<>>]

\* mutant: the knowledge base whose load raised is kept as it is
_initialize_knowledge_base_keeps_failed(cfg, file) ==
    IF ~cfg.rag_enabled
    THEN [kb |-> SimpleKnowledgeBase(file, FALSE), disk |-> file]
    ELSE LET found == IF file.kind = "absent" THEN default_knowledge ELSE file
         IN  [kb |-> SimpleKnowledgeBase(found, TRUE), disk |-> found]

\* SimpleChatbot._initialize_knowledge_base: the knowledge base returned and the
\* file as it leaves it
_initialize_knowledge_base(cfg, file) ==
    IF ~cfg.rag_enabled
    THEN [kb |-> SimpleKnowledgeBase(file, FALSE), disk |-> file]
    ELSE LET found == IF file.kind = "absent" THEN default_knowledge ELSE file
             kb == SimpleKnowledgeBase(found, TRUE)
         IN  [kb |-> IF kb.raised = "none" THEN kb ELSE SimpleKnowledgeBase(found, FALSE),
              disk |-> found]

\* the call of knowledge_base.search that _get_rag_context makes
rag_results(user_input, fault) ==
    search(kb_enabled, knowledge_data, user_input,
           config.rag_max_results, config.rag_min_relevance, fault)

\* mutant: _get_rag_context has no except clause
_get_rag_context_no_except(user_input, fault) ==
    IF ~kb_enabled THEN Returned(<<>>)
    ELSE LET results == rag_results(user_input, fault)
         IN  IF results.raised # "none" THEN Raised(results.raised)
             ELSE IF results.value # <<>> THEN Returned(format_context(results.value))
             ELSE Returned(<<>>)

\* mutant: the block is built, marker lines and all, whether or not the search
\* has returned results
_get_rag_context_always_block(user_input, fault) ==
    IF ~kb_enabled THEN Returned(<<>>)
    ELSE LET results == rag_results(user_input, fault)
         IN  IF results.raised # "none" THEN Returned(<<>>)
             ELSE Returned(join(<<RAG_OPEN>>
                                \o [i \in 1..Len(results.value) |->
                                        context_line(i, results.value[i])]
                                \o <<RAG_CLOSE>>, NL))

\* SimpleChatbot._get_rag_context, as the caller sees it
_get_rag_context(user_input, fault) ==
    IF ~kb_enabled THEN Returned(<<>>)
    ELSE LET results == rag_results(user_input, fault)
         IN  IF results.raised # "none" THEN Returned(<<>>)
             ELSE IF results.value # <<>> THEN Returned(format_context(results.value))
             ELSE Returned(<<>>)

USER_LINE(user_input) == <<"U", "s", "e", "r", ":", " ">> \o user_input
ASSISTANT_CUE == <<"A", "s", "s", "i", "s", "t", "a", "n", "t", ":">>

\* mutant: the context block is put before the history block
prompt_parts_context_first(conversation_history, rag_context, user_input) ==
    (IF rag_context # <<>> THEN <<rag_context>> ELSE <<>>)
    \o (IF conversation_history # <<>> THEN <<conversation_history>> ELSE <<>>)
    \o <<USER_LINE(user_input)>>
    \o <<ASSISTANT_CUE>>

\* the list prompt_parts that _format_prompt builds
prompt_parts(conversation_history, rag_context, user_input) ==
    (IF conversation_history # <<>> THEN <<conversation_history>> ELSE <<>>)
    \o (IF rag_context # <<>> THEN <<rag_context>> ELSE <<>>)
    \o <<USER_LINE(user_input)>>
    \o <<ASSISTANT_CUE>>

\* SimpleChatbot._format_prompt on a memory that holds msgs
_format_prompt(msgs, user_input, fault) ==
    LET conversation_history == format_for_prompt(msgs, TRUE)
        rag_context == _get_rag_context(user_input, fault)
    IN  IF rag_context.raised # "none" THEN Raised(rag_context.raised)
        ELSE Returned(join(prompt_parts(conversation_history, rag_context.value, user_input),
                           NL))

NO_INPUT == <<"I didn't receive any input. Could you please say something?">>
APOLOGY == <<"I'm sorry, I encountered an error: ">>

\* mutant: the test is on the input as typed
is_blank_unstripped(user_input) == user_input = <<>>

\* not user_input.strip()
is_blank(user_input) == strip(user_input) = <<>>

\* what a call of chat leaves: the memory, the value returned or the exception
\* raised, and the prompts handed to the backend
Turn(msgs, value, exc, prompts) ==
    [messages |-> msgs, ret |-> value, raised |-> exc, sent |-> prompts]

\* mutant: the reply to blank input is recorded as the assistant's message
chat_blank_records_reply(msgs, user_input) ==
    Turn(add_assistant_message(msgs, NO_INPUT), NO_INPUT, "none", <<>>)

\* chat on blank input
chat_blank(msgs, user_input) == Turn(msgs, NO_INPUT, "none", <<>>)

\* mutant: the raw response is returned, the cleaned one stored
chat_answered_returns_raw(msgs, prompt, text) ==
    Turn(add_assistant_message(msgs, _clean_response(text)), text, "none", <<prompt>>)

\* chat once the backend has answered: the try block to its return
chat_answered(msgs, prompt, text) ==
    LET cleaned_response == _clean_response(text)
    IN  Turn(add_assistant_message(msgs, cleaned_response), cleaned_response, "none", <<prompt>>)

\* mutant: the apology is recorded as the assistant's message
chat_failed_records_error(msgs, prompt, e) ==
    Turn(add_assistant_message(msgs, APOLOGY \o e.text), APOLOGY \o e.text, "none", <<prompt>>)

\* mutant: only OllamaConnectionError is caught
chat_failed_catches_one(msgs, prompt, e) ==
    IF e.kind = "OllamaConnectionError"
    THEN Turn(msgs, APOLOGY \o e.text, "none", <<prompt>>)
    ELSE Turn(msgs, <<>>, e.kind, <<prompt>>)

\* chat once the backend has raised OllamaConnectionError or ModelNotFoundError:
\* the except block
chat_failed(msgs, prompt, e) == Turn(msgs, APOLOGY \o e.text, "none", <<prompt>>)

\* mutant: the prompt is built before the user message is added to the memory
chat_formats_first(msgs, user_input, backend, fault) ==
    IF is_blank(user_input) THEN chat_blank(msgs, user_input)
    ELSE LET with_user == add_user_message(msgs, user_input)
             formatted_prompt == _format_prompt(msgs, user_input, fault)
         IN  IF formatted_prompt.raised # "none"
             THEN Turn(with_user, <<>>, formatted_prompt.raised, <<>>)
             ELSE IF backend.kind = "response"
             THEN chat_answered(with_user, formatted_prompt.value, backend.text)
             ELSE chat_failed(with_user, formatted_prompt.value, backend)

\* SimpleChatbot.chat on a memory that holds msgs, with what the retrieval and
\* the backend do
chat(msgs, user_input, backend, fault) ==
    IF is_blank(user_input) THEN chat_blank(msgs, user_input)
    ELSE LET with_user == add_user_message(msgs, user_input)
             formatted_prompt == _format_prompt(with_user, user_input, fault)
         IN  IF formatted_prompt.raised # "none"
             THEN Turn(with_user, <<>>, formatted_prompt.raised, <<>>)
             ELSE IF backend.kind = "response"
             THEN chat_answered(with_user, formatted_prompt.value, backend.text)
             ELSE chat_failed(with_user, formatted_prompt.value, backend)

\* mutant: the assistant message is added before the backend is called
chat_next_stores_first(last, user_input, backend) ==
    CASE last = "call" ->
            IF is_blank(user_input) THEN "return" ELSE "add_user_message"
      [] last = "add_user_message" -> "_format_prompt"
      [] last = "_format_prompt" -> "add_assistant_message"
      [] last = "add_assistant_message" -> "generate_response"
      [] last = "generate_response" ->
            IF backend.kind = "response" THEN "_clean_response" ELSE "except"
      [] last = "_clean_response" -> "return"
      [] last = "except" -> "return"
      [] OTHER -> "call"

\* the statement of chat that comes after the one executed last, backend being
\* what generate_response did when it has been called
chat_next(last, user_input, backend) ==
    CASE last = "call" ->
            IF is_blank(user_input) THEN "return" ELSE "add_user_message"
      [] last = "add_user_message" -> "_format_prompt"
      [] last = "_format_prompt" -> "generate_response"
      [] last = "generate_response" ->
            IF backend.kind = "response" THEN "_clean_response" ELSE "except"
      [] last = "_clean_response" -> "add_assistant_message"
      [] last = "add_assistant_message" -> "return"
      [] last = "except" -> "return"
      [] OTHER -> "call"

\* mutant: reload_knowledge has no except clause
reload_knowledge_no_except(enabled, data, file) ==
    LET done == reload(enabled, data, file)
    IN  [ret |-> TRUE, raised |-> done.raised, knowledge_data |-> done.knowledge_data]

\* mutant: a reload that loaded nothing is reported as a failure
reload_knowledge_reports_loaded(enabled, data, file) ==
    LET done == reload(enabled, data, file)
    IN  [ret |-> enabled /\ done.raised = "none", raised |-> "none",
         knowledge_data |-> done.knowledge_data]

\* SimpleChatbot.reload_knowledge: the value returned, the exception raised and
\* the table left (self.knowledge_base is always an object, which is true)
reload_knowledge(enabled, data, file) ==
    LET done == reload(enabled, data, file)
    IN  [ret |-> done.raised = "none", raised |-> "none",
         knowledge_data |-> done.knowledge_data]

\* mutant: the memory is cleared and the system prompt is not added again
reset_conversation_clear_only(msgs) == clear(msgs)

\* SimpleChatbot.reset_conversation
reset_conversation(msgs) ==
    IF config.system_prompt # <<>>
    THEN add_message(clear(msgs), "system", config.system_prompt)
    ELSE clear(msgs)

\* what a call that reads the session leaves: the value returned, the memory
\* and the knowledge table
Observed(value, msgs, data) == [ret |-> value, messages |-> msgs, knowledge_data |-> data]

\* the messages of a role
count_role(msgs, role) == Cardinality({i \in 1..Len(msgs) : msgs[i].role = role})

\* ConversationMemory.get_conversation_summary
get_conversation_summary(msgs) ==
    [total_messages |-> Len(msgs),
     user_messages |-> count_role(msgs, "user"),
     assistant_messages |-> count_role(msgs, "assistant"),
     system_messages |-> count_role(msgs, "system")]

\* SimpleChatbot.get_conversation_stats: the summary of the memory, updated
\* with three figures of the knowledge base (a disabled one has no
\* total_categories, and 0 is given)
get_conversation_stats(msgs, enabled, data) ==
    LET stats == get_conversation_summary(msgs)
        kb_stats == get_stats(enabled, data)
    IN  Observed([total_messages |-> stats.total_messages,
                  user_messages |-> stats.user_messages,
                  assistant_messages |-> stats.assistant_messages,
                  system_messages |-> stats.system_messages,
                  rag_enabled |-> kb_stats.enabled,
                  knowledge_entries |-> kb_stats.total_entries,
                  knowledge_categories |-> IF enabled THEN kb_stats.total_categories ELSE 0],
                 msgs, data)

YOU == <<"Y", "o", "u", ":", " ">>
BOT == <<"B", "o", "t", ":", " ">>
NO_HISTORY == <<"No conversation history yet.">>

\* the lines of get_conversation_history(format_for_display=True)
formatted_history(msgs) ==
    LET kept == keep(msgs, FALSE)
    IN  [i \in 1..Len(kept) |->
            (IF kept[i].role = "user" THEN YOU ELSE BOT) \o kept[i].content]

\* mutant: the messages are taken out of the deque as they are formatted
get_conversation_history_consumes(msgs, format_for_display, data) ==
    IF format_for_display
    THEN Observed(IF formatted_history(msgs) # <<>> THEN join(formatted_history(msgs), NL)
                  ELSE NO_HISTORY, <<>>, data)
    ELSE Observed(format_for_prompt(msgs, FALSE), <<>>, data)

\* SimpleChatbot.get_conversation_history
get_conversation_history(msgs, format_for_display, data) ==
    IF format_for_display
    THEN Observed(IF formatted_history(msgs) # <<>> THEN join(formatted_history(msgs), NL)
                  ELSE NO_HISTORY, msgs, data)
    ELSE Observed(format_for_prompt(msgs, FALSE), msgs, data)

\* SimpleChatbot.search_knowledge: max_results=10, min_relevance_score=0.05
search_knowledge(msgs, enabled, data, query) ==
    IF ~enabled THEN Observed(<<>>, msgs, data)
    ELSE Observed(search(enabled, data, query, 10, Ratio(1, 20), "none").value, msgs, data)

\* SimpleChatbot.get_knowledge_stats
get_knowledge_stats(msgs, enabled, data) == Observed(get_stats(enabled, data), msgs, data)

\* SimpleChatbot.get_knowledge_categories
get_knowledge_categories(msgs, enabled, data) ==
    IF ~enabled THEN Observed(<<>>, msgs, data)
    ELSE Observed(get_categories(data), msgs, data)

\* ------------------------------------- specification of the memory on its own

\* the content of the n-th message added: every message is told apart
Digits == <<"1", "2", "3", "4", "5", "6", "7", "8", "9">>
NthContent(n) == <<"m", Digits[n]>>

\* the variables of _clean_response's specification, where it is not exercised
CleanIdle ==
    /\ response = <<>>
    /\ parts = <<>>
    /\ cleaned = <<>>
    /\ recleaned = <<>>

\* the variables of the knowledge base, where it is not exercised
KbIdle ==
    /\ kb_enabled = FALSE
    /\ knowledge_data = <<>>
    /\ kb_query = <<>>
    /\ search_args = <<>>
    /\ kb_results = <<>>
    /\ kb_pre = <<>>
    /\ kb_raised = "none"
    /\ kb_fault = "none"

\* the variables of the session, where it is not exercised
SessIdle ==
    /\ config = <<>>
    /\ disk = <<>>
    /\ turn_input = <<>>
    /\ outcome = <<>>
    /\ sent = <<>>
    /\ ret = <<>>
    /\ raised = "none"

\* the variables of a call in progress, where none is followed
CallIdle ==
    /\ args = <<>>
    /\ steps = <<>>
    /\ turn_prompt = <<>>

\* the variables of the memory, where it is not exercised
MemIdle ==
    /\ memory_limit = 0
    /\ messages = <<>>
    /\ added = <<>>
    /\ pre = <<>>

MemInit ==
    /\ memory_limit \in 0..MaxLimit
    /\ messages = <<>>
    /\ added = <<>>
    /\ pre = <<>>
    /\ op = "init"
    /\ CleanIdle
    /\ KbIdle
    /\ SessIdle
    /\ CallIdle

MemAddMessage ==
    \E role \in Roles :
        LET content == NthContent(Len(added) + 1) IN
        /\ Len(added) < MaxAdds
        /\ messages' = add_message(messages, role, content)
        /\ added' = Append(added, ChatMessage(role, content))
        /\ pre' = messages
        /\ op' = "add_message"
        /\ ret' = <<>>
        /\ args' = <<>>
        /\ UNCHANGED <<memory_limit, cleanVars, kbVars, steps, turn_prompt>>
        /\ UNCHANGED <<config, disk, turn_input, outcome, sent, raised>>

MemAddUserMessage ==
    LET content == NthContent(Len(added) + 1) IN
    /\ Len(added) < MaxAdds
    /\ messages' = add_user_message(messages, content)
    /\ added' = Append(added, ChatMessage("user", content))
    /\ pre' = messages
    /\ op' = "add_user_message"
    /\ ret' = <<>>
    /\ args' = <<>>
    /\ UNCHANGED <<memory_limit, cleanVars, kbVars, steps, turn_prompt>>
    /\ UNCHANGED <<config, disk, turn_input, outcome, sent, raised>>

MemAddAssistantMessage ==
    LET content == NthContent(Len(added) + 1) IN
    /\ Len(added) < MaxAdds
    /\ messages' = add_assistant_message(messages, content)
    /\ added' = Append(added, ChatMessage("assistant", content))
    /\ pre' = messages
    /\ op' = "add_assistant_message"
    /\ ret' = <<>>
    /\ args' = <<>>
    /\ UNCHANGED <<memory_limit, cleanVars, kbVars, steps, turn_prompt>>
    /\ UNCHANGED <<config, disk, turn_input, outcome, sent, raised>>

MemClear ==
    /\ messages' = clear(messages)
    /\ added' = <<>>
    /\ pre' = messages
    /\ op' = "clear"
    /\ ret' = <<>>
    /\ args' = <<>>
    /\ UNCHANGED <<memory_limit, cleanVars, kbVars, steps, turn_prompt>>
    /\ UNCHANGED <<config, disk, turn_input, outcome, sent, raised>>

\* the values of count: None, and 0 up to one more than the memory can hold
RecentCounts == {<<>>} \cup {<<n>> : n \in 0..(2 * MaxLimit + 1)}

MemGetRecentMessages ==
    \E count \in RecentCounts :
        /\ ret' = get_recent_messages(messages, count)
        /\ args' = [count |-> count]
        /\ pre' = messages
        /\ op' = "get_recent_messages"
        /\ UNCHANGED <<memory_limit, messages, added, cleanVars, kbVars, steps, turn_prompt>>
        /\ UNCHANGED <<config, disk, turn_input, outcome, sent, raised>>

MemNext ==
    \/ MemAddMessage
    \/ MemAddUserMessage
    \/ MemAddAssistantMessage
    \/ MemClear
    \/ MemGetRecentMessages

SpecMemory == MemInit /\ [][MemNext]_vars

MemAddOps == {"add_message", "add_user_message", "add_assistant_message"}

\* C1: a memory with pair-limit L never retains more than 2*L messages, and an
\* add on a full memory appends the new message and discards exactly the oldest
\* one: what is retained is the old contents followed by the new message, less
\* its first element.
C1_BoundedOldestFirst ==
    /\ Len(messages) <= 2 * memory_limit
    /\ (op \in MemAddOps /\ Len(pre) = 2 * memory_limit) =>
            /\ Append(pre, added[Len(added)]) = <<Append(pre, added[Len(added)])[1]>> \o messages
            /\ Len(messages) = Len(pre)

\* C1 witness: an add has just acted on a full memory of four messages
C1_Witness ==
    /\ op \in MemAddOps
    /\ memory_limit = 2
    /\ Len(pre) = 4
    /\ messages[4] = added[Len(added)]
    /\ messages[1] = pre[2]

\* C2: once more than 2*L messages have been added, exactly 2*L are retained
\* and they are the last 2*L added, in the order they were added.
C2_LastRetained ==
    Len(added) > 2 * memory_limit =>
        /\ Len(messages) = 2 * memory_limit
        /\ messages = SubSeq(added, Len(added) - 2 * memory_limit + 1, Len(added))

\* C2 witness: pair-limit 2 and six alternating user / assistant messages added
C2_Witness ==
    /\ memory_limit = 2
    /\ Len(added) = 6
    /\ \A i \in 1..6 : added[i].role = (IF i % 2 = 1 THEN "user" ELSE "assistant")
    /\ messages = <<added[3], added[4], added[5], added[6]>>

\* ------------------------------------ specification of _clean_response on its own

\* the whitespace a raw response is padded with
PadChars == {" ", "\n"}
Pads == UNION {[1..k -> PadChars] : k \in 0..MaxPad}

\* the role prefixes a raw response may come with: none, the six spellings of
\* prefixes_to_remove, and three other casings of the same words
OtherCasings == {
    <<"A", "S", "S", "I", "S", "T", "A", "N", "T", ":">>,
    <<"A", "i", ":">>,
    <<"B", "O", "T", ":">> }
ListedPrefixes == {prefixes_to_remove[i] : i \in 1..Len(prefixes_to_remove)}
PrefixChoices == {<<>>} \cup ListedPrefixes \cup OtherCasings

\* the text of a raw response: no whitespace at either end
Texts == {
    <<>>,
    <<"h", "i">>,
    <<"h", "i", " ", "y", "o">>,
    <<"A", "I", ":", " ", "h", "i">>,
    <<"b", "o", "t", ":", "h", "i">>,
    <<"B", "o", "t">> }

CleanInit ==
    /\ parts \in [lead : Pads, prefix : PrefixChoices, gap : Pads, text : Texts, trail : Pads]
    /\ response = parts.lead \o parts.prefix \o parts.gap \o parts.text \o parts.trail
    /\ cleaned = <<>>
    /\ recleaned = <<>>
    /\ op = "init"
    /\ MemIdle
    /\ KbIdle
    /\ SessIdle
    /\ CallIdle

\* cleaned_response = self._clean_response(response)
Clean ==
    /\ op = "init"
    /\ cleaned' = _clean_response(response)
    /\ op' = "_clean_response"
    /\ UNCHANGED <<memVars, kbVars, sessVars, response, parts, recleaned, callVars>>

\* the cleaned response is cleaned again
CleanAgain ==
    /\ op = "_clean_response"
    /\ recleaned' = _clean_response(cleaned)
    /\ op' = "_clean_response again"
    /\ UNCHANGED <<memVars, kbVars, sessVars, response, parts, cleaned, callVars>>

CleanNext ==
    \/ Clean
    \/ CleanAgain

SpecClean == CleanInit /\ [][CleanNext]_vars

\* the role prefixes as the spec names them, lower-cased
RoleWords == {lower(p) : p \in ListedPrefixes}

\* the raw response less the whitespace around it, from the pieces it was built of
Core ==
    IF parts.prefix = <<>> THEN parts.text
    ELSE IF parts.text = <<>> THEN parts.prefix
    ELSE parts.prefix \o parts.gap \o parts.text

\* C8 as stated: cleaning a cleaned response changes nothing, whatever the
\* raw response.
C8_Idempotent ==
    op = "_clean_response again" => recleaned = cleaned

\* C8 as amended: cleaning a cleaned response changes nothing exactly when the
\* cleaned response does not itself start with a prefix of prefixes_to_remove;
\* when it does (two role prefixes in a row), the second cleaning cuts it too.
C8_IdempotentUnlessStacked ==
    op = "_clean_response again" =>
        ((recleaned = cleaned) <=> (\A p \in ListedPrefixes : ~startswith(cleaned, p)))

\* C8 witness: a response with one role prefix has been cleaned twice, and the
\* second cleaning found nothing to do
C8_Witness ==
    /\ op = "_clean_response again"
    /\ parts.prefix = <<"B", "o", "t", ":">>
    /\ parts.gap # <<>>
    /\ parts.text = <<"h", "i">>
    /\ cleaned = <<"h", "i">>
    /\ recleaned = <<"h", "i">>

\* C9 as stated: a leading role prefix in any casing of "Assistant:", "AI:" or
\* "Bot:" is removed together with the whitespace after it, leaving the text.
C9_AnyCasingRemoved ==
    op = "_clean_response" =>
        /\ lower(parts.prefix) \in RoleWords => cleaned = parts.text
        /\ (\A w \in RoleWords : ~startswith(lower(Core), w)) => cleaned = Core

\* C9 as amended: a leading prefix spelled exactly as one of the six entries of
\* prefixes_to_remove is removed together with the whitespace after it, leaving
\* the text; a response that starts with none of the six spellings (any other
\* casing included) is returned stripped and otherwise unchanged.
C9_ListedSpellingRemoved ==
    op = "_clean_response" =>
        /\ parts.prefix \in ListedPrefixes => cleaned = parts.text
        /\ (\A p \in ListedPrefixes : ~startswith(Core, p)) => cleaned = Core

\* C9 witness: one response with a listed prefix cleaned to its text
C9_Witness ==
    /\ op = "_clean_response"
    /\ parts.prefix = <<"a", "i", ":">>
    /\ parts.lead # <<>>
    /\ parts.gap # <<>>
    /\ parts.text = <<"h", "i", " ", "y", "o">>
    /\ cleaned = parts.text

\* ------------------------------- specification of the knowledge base on its own

\* words of the knowledge files and the queries
W_aris == <<"a", "r", "i", "s">>
W_Aris == <<"A", "r", "i", "s">>
W_thorne == <<"t", "h", "o", "r", "n", "e">>
W_xeno == <<"x", "e", "n", "o">>
W_moon == <<"m", "o", "o", "n">>
W_hi == <<"h", "i">>
W_who == <<"W", "h", "o">>
W_is == <<"i", "s">>
SP == <<" ">>

\* the entries a knowledge file is made of: keywords as written in the file
\* (mixed case, repeated, none at all), content, category
EntryPool == {
    RawEntry("character", Some(<<W_aris, W_thorne>>), Some(<<"Dr. Thorne...">>),
             Some(<<"character">>)),
    RawEntry("repeated", Some(<<W_Aris, W_aris, W_xeno>>), Some(<<"Aris again">>), None),
    RawEntry("lore", Some(<<W_thorne, W_moon, W_xeno, W_hi>>), Some(<<"Lore">>),
             Some(<<"lore">>)),
    RawEntry("bare", Some(<<>>), Some(<<"No keywords">>), Some(<<>>)) }

\* the knowledge files: up to MaxEntries entries with distinct ids, in file order
KnowledgeFiles ==
    {File("object", t) : t \in
        {t \in UNION {[1..k -> EntryPool] : k \in 0..MaxEntries} :
            \A i, j \in 1..Len(t) : i # j => t[i].entry_id # t[j].entry_id}}

\* the queries put to search
Queries == {
    <<>>,
    SP,
    W_who \o SP \o W_is \o SP \o W_aris \o SP \o W_thorne \o <<"?">>,
    W_Aris \o <<"!">>,
    W_xeno \o <<",">> \o SP \o W_moon \o SP \o W_moon,
    W_hi \o <<"!">> \o SP \o W_is,
    W_who }

\* the values of max_results
MaxResultsChoices == {1, 3}

\* the values of min_relevance_score: 0.0, 0.1 (the default), 0.5, 1.0
MinRelevanceChoices == {Ratio(0, 1), Ratio(1, 10), Ratio(1, 2), Ratio(1, 1)}

\* SimpleKnowledgeBase(knowledge_file, enabled) on a well-formed file
KbInit ==
    \E file \in KnowledgeFiles, enabled \in BOOLEAN :
        LET kb == SimpleKnowledgeBase(file, enabled) IN
        /\ kb.raised = "none"
        /\ disk = file
        /\ kb_enabled = kb.enabled
        /\ knowledge_data = kb.knowledge_data
        /\ kb_query = <<>>
        /\ search_args = <<>>
        /\ kb_results = <<>>
        /\ kb_pre = <<>>
        /\ kb_raised = "none"
        /\ kb_fault = "none"
        /\ op = "init"
        /\ CallIdle
        /\ config = <<>>
        /\ turn_input = <<>>
        /\ outcome = <<>>
        /\ sent = <<>>
        /\ ret = <<>>
        /\ raised = "none"
        /\ MemIdle
        /\ CleanIdle

\* kb.search(query, max_results, min_relevance_score) with its arguments drawn
\* from the sets given, with or without an exception inside its try block
SearchIn(queries, max_results_choices, min_relevance_choices) ==
    \E q \in queries, m \in max_results_choices, r \in min_relevance_choices :
    \E f \in {"none", "scoring"} :
    \E done \in {search(kb_enabled, knowledge_data, q, m, r, f)} :
        /\ kb_query' = q
        /\ search_args' = [max_results |-> m, min_relevance_score |-> r]
        /\ kb_fault' = f
        /\ kb_results' = done.value
        /\ kb_raised' = done.raised
        /\ kb_pre' = knowledge_data
        /\ op' = "search"
        /\ ret' = <<>>
        /\ raised' = "none"
        /\ UNCHANGED <<memVars, cleanVars, kb_enabled, knowledge_data>>
        /\ UNCHANGED <<config, disk, turn_input, outcome, sent, callVars>>

Search == SearchIn(Queries, MaxResultsChoices, MinRelevanceChoices)

KbNext ==
    \/ Search

SpecKB == KbInit /\ [][KbNext]_vars

\* the entry of the knowledge table with this id
EntryOf(id) ==
    (CHOOSE item \in Range(knowledge_data) : item.entry_id = id).entry

\* the distinct lower-cased keywords of an entry, stated from the file's list
DistinctLowered(entry) == {lower(entry.keywords[i]) : i \in 1..Len(entry.keywords)}

\* C10: every result of search is an entry of the table, with at least one
\* matched keyword, and its relevance_score is the number of its matched
\* keywords over the number of distinct lower-cased keywords of the entry, a
\* value between 0 and 1.
C10_ScoreIsMatchedOverDistinct ==
    op = "search" =>
        \A i \in 1..Len(kb_results) :
            LET r == kb_results[i] IN
            /\ \E item \in Range(knowledge_data) : item.entry_id = r.entry_id
            /\ r.matched_keywords # {}
            /\ r.matched_keywords \subseteq DistinctLowered(EntryOf(r.entry_id))
            /\ r.relevance_score.num = Cardinality(r.matched_keywords)
            /\ r.relevance_score.den = Cardinality(DistinctLowered(EntryOf(r.entry_id)))
            /\ r.relevance_score.den > 0
            /\ 0 <= r.relevance_score.num
            /\ r.relevance_score.num <= r.relevance_score.den

\* C10 witness: keywords ["aris", "thorne"] against "Who is aris thorne?" score
\* 2/2, and in the same table an entry with a repeated keyword scores 1/2
C10_Witness ==
    /\ op = "search"
    /\ kb_query = W_who \o SP \o W_is \o SP \o W_aris \o SP \o W_thorne \o <<"?">>
    /\ Len(kb_results) = 2
    /\ kb_results[1].entry_id = "character"
    /\ kb_results[1].relevance_score = Ratio(2, 2)
    /\ kb_results[1].matched_keywords = {W_aris, W_thorne}
    /\ kb_results[2].entry_id = "repeated"
    /\ kb_results[2].relevance_score = Ratio(1, 2)

\* the place of an entry in the knowledge table, by its id
PositionOf(id) == CHOOSE i \in 1..Len(knowledge_data) : knowledge_data[i].entry_id = id

\* the ids of the results of the last search
ResultIds == {kb_results[i].entry_id : i \in 1..Len(kb_results)}

\* the keywords of the query that an entry of the table has, and its score
MatchedAt(i) == _extract_keywords(kb_query) \cap DistinctLowered(knowledge_data[i].entry)
ScoreAt(i) ==
    Ratio(Cardinality(MatchedAt(i)), Cardinality(DistinctLowered(knowledge_data[i].entry)))

\* the entries of the table that match the query and clear the threshold
Candidates ==
    {i \in 1..Len(knowledge_data) :
        /\ MatchedAt(i) # {}
        /\ ratio_ge(ScoreAt(i), search_args.min_relevance_score)}

\* C11: the results of search are in order of non-increasing relevance_score,
\* and of two results with the same score the one whose entry comes first in
\* the knowledge table comes first.
C11_RankedStable ==
    op = "search" =>
        \A i, j \in 1..Len(kb_results) :
            i < j =>
                /\ ratio_ge(kb_results[i].relevance_score, kb_results[j].relevance_score)
                /\ ratio_ge(kb_results[j].relevance_score, kb_results[i].relevance_score)
                    => PositionOf(kb_results[i].entry_id) < PositionOf(kb_results[j].entry_id)

\* C11 witness: "lore" scores 2/4 and "repeated" 1/2 on the same query, and
\* "lore" is the first of the two in the table
C11_Witness ==
    /\ op = "search"
    /\ Len(kb_results) = 2
    /\ kb_results[1].entry_id = "lore"
    /\ kb_results[1].relevance_score = Ratio(2, 4)
    /\ kb_results[2].entry_id = "repeated"
    /\ kb_results[2].relevance_score = Ratio(1, 2)
    /\ knowledge_data[1].entry_id = "lore"

\* C12: search returns at most max_results results, each with a score of at
\* least min_relevance_score, and no entry that clears the threshold and is
\* left out scores strictly more than a result that is returned.
C12_BoundedAboveThresholdTopKept ==
    op = "search" =>
        /\ Len(kb_results) <= search_args.max_results
        /\ \A i \in 1..Len(kb_results) :
            ratio_ge(kb_results[i].relevance_score, search_args.min_relevance_score)
        /\ \A c \in Candidates :
            knowledge_data[c].entry_id \notin ResultIds =>
                \A i \in 1..Len(kb_results) :
                    ~ratio_gt(ScoreAt(c), kb_results[i].relevance_score)

\* C12 witness: two entries clear a threshold of 0.5, the second of the table
\* scoring more, and max_results = 1 keeps that one
C12_Witness ==
    /\ op = "search"
    /\ kb_fault = "none"
    /\ search_args = [max_results |-> 1, min_relevance_score |-> Ratio(1, 2)]
    /\ Cardinality(Candidates) = 2
    /\ Len(kb_results) = 1
    /\ kb_results[1].entry_id = "character"
    /\ kb_results[1].relevance_score = Ratio(2, 2)
    /\ knowledge_data[2].entry_id = "character"

\* C23: every token extracted from the query of a search is longer than two
\* characters once its punctuation is stripped ("hi!" gives no token), and so
\* is every keyword a result reports as matched.
C23_TokensLongerThanTwo ==
    op = "search" =>
        /\ \A token \in _extract_keywords(kb_query) : Len(token) > 2
        /\ \A i \in 1..Len(kb_results) :
            \A kw \in kb_results[i].matched_keywords : Len(kw) > 2

\* the entries of the table whose keyword list is empty
Keywordless == {i \in 1..Len(knowledge_data) : knowledge_data[i].entry.keywords = <<>>}

\* C30: scoring never divides by zero: with an entry without keywords in the
\* table, a search in which nothing else raises returns no such entry and
\* returns what the other entries give: as many results as max_results allows
\* of the entries that match and clear the threshold.
C30_KeywordlessEntrySkipped ==
    (op = "search" /\ kb_fault = "none" /\ Keywordless # {}) =>
        /\ \A i \in Keywordless : knowledge_data[i].entry_id \notin ResultIds
        /\ (kb_enabled /\ strip(kb_query) # <<>>) =>
            Len(kb_results) = (IF Cardinality(Candidates) < search_args.max_results
                               THEN Cardinality(Candidates) ELSE search_args.max_results)

\* C30 witness: the table holds "character" and the entry without keywords, and
\* a query for Aris returns "character" alone
C30_Witness ==
    /\ op = "search"
    /\ kb_fault = "none"
    /\ Len(knowledge_data) = 2
    /\ knowledge_data[1].entry_id = "bare"
    /\ knowledge_data[1].entry.keywords = <<>>
    /\ knowledge_data[2].entry_id = "character"
    /\ Len(kb_results) = 1
    /\ kb_results[1].entry_id = "character"

\* ------------------------ specification of the knowledge base and its file

C_character == <<"c", "h", "a", "r", "a", "c", "t", "e", "r">>
C_lore == <<"l", "o", "r", "e">>
C_Lore == <<"L", "o", "r", "e">>

\* the entries the edited files are made of: "character" as first written and
\* as revised, "lore", and two entries that lack a required field
E_character == RawEntry("character", Some(<<W_aris, W_thorne>>), Some(<<"Dr. Thorne...">>), Some(C_character))
E_character_revised == RawEntry("character", Some(<<W_aris>>), Some(<<"Thorne, revised">>), Some(C_Lore))
E_lore == RawEntry("lore", Some(<<W_moon, W_xeno>>), Some(<<"Lore">>), Some(C_lore))
E_no_content == RawEntry("draft", Some(<<W_xeno>>), None, None)
E_no_keywords == RawEntry("note", None, Some(<<"A note">>), None)
StorePool == {E_character, E_character_revised, E_lore, E_no_content, E_no_keywords}

\* the states of the knowledge file: absent, not JSON, or an object of up to
\* MaxEntries entries with distinct ids
StoreFiles ==
    {File("absent", <<>>), File("malformed", <<>>)}
    \cup {File("object", t) : t \in
            {t \in UNION {[1..k -> StorePool] : k \in 0..MaxEntries} :
                \A i, j \in 1..Len(t) : i # j => t[i].entry_id # t[j].entry_id}}

\* the arguments of the read operations
StoreIds == {"character", "lore", "draft"}
StoreCategories == {C_lore, C_character}
StoreQueries == {W_aris \o SP \o W_moon}

\* the history of a search, after an operation that is none
NoSearch ==
    /\ kb_query' = <<>>
    /\ search_args' = <<>>
    /\ kb_results' = <<>>
    /\ kb_raised' = "none"
    /\ kb_fault' = "none"

\* SimpleKnowledgeBase(knowledge_file, enabled), on any file.  When the load
\* raises, so does the constructor, and there is no object to operate on: the
\* state shows the fields as the constructor left them.
StoreInit ==
    \E file \in StoreFiles, enabled \in BOOLEAN :
    \E kb \in {SimpleKnowledgeBase(file, enabled)} :
        /\ disk = file
        /\ kb_enabled = kb.enabled
        /\ knowledge_data = kb.knowledge_data
        /\ raised = kb.raised
        /\ kb_query = <<>>
        /\ search_args = <<>>
        /\ kb_results = <<>>
        /\ kb_pre = <<>>
        /\ kb_raised = "none"
        /\ kb_fault = "none"
        /\ op = "init"
        /\ CallIdle
        /\ config = <<>>
        /\ turn_input = <<>>
        /\ outcome = <<>>
        /\ sent = <<>>
        /\ ret = <<>>
        /\ MemIdle
        /\ CleanIdle

\* the constructor returned an object
Constructed == ~(op = "init" /\ raised # "none")

\* the file is edited, replaced or removed behind the store's back, and is
\* then one of the files given
WriteFileIn(files) ==
    /\ Constructed
    /\ \E file \in files :
        /\ file # disk
        /\ disk' = file
    /\ op' = "write_file"
    /\ ret' = <<>>
    /\ raised' = "none"
    /\ kb_pre' = knowledge_data
    /\ NoSearch
    /\ UNCHANGED <<memVars, cleanVars, kb_enabled, knowledge_data>>
    /\ UNCHANGED <<config, turn_input, outcome, sent, callVars>>

WriteFile == WriteFileIn(StoreFiles)

\* kb.reload()
Reload ==
    /\ Constructed
    /\ \E done \in {reload(kb_enabled, knowledge_data, disk)} :
        /\ knowledge_data' = done.knowledge_data
        /\ raised' = done.raised
    /\ op' = "reload"
    /\ ret' = <<>>
    /\ kb_pre' = knowledge_data
    /\ NoSearch
    /\ UNCHANGED <<memVars, cleanVars, kb_enabled>>
    /\ UNCHANGED <<config, disk, turn_input, outcome, sent, callVars>>

\* a read operation of the store that returned value
Read(name, value) ==
    /\ Constructed
    /\ op' = name
    /\ ret' = value
    /\ raised' = "none"
    /\ kb_pre' = knowledge_data
    /\ NoSearch
    /\ UNCHANGED <<memVars, cleanVars, kb_enabled, knowledge_data>>
    /\ UNCHANGED <<config, disk, turn_input, outcome, sent, callVars>>

GetEntry == \E id \in StoreIds : Read("get_entry", get_entry(knowledge_data, id))
GetAllEntries == Read("get_all_entries", get_all_entries(knowledge_data))
GetCategories == Read("get_categories", get_categories(knowledge_data))
SearchByCategory ==
    \E category \in StoreCategories :
        Read("search_by_category", search_by_category(knowledge_data, category))
GetStats == Read("get_stats", get_stats(kb_enabled, knowledge_data))

\* kb.search with the default max_results and min_relevance_score
StoreSearch ==
    /\ Constructed
    /\ SearchIn(StoreQueries, {DefaultRagMaxResults}, {Ratio(1, 10)})

StoreNext ==
    \/ WriteFile
    \/ Reload
    \/ StoreSearch
    \/ GetEntry
    \/ GetAllEntries
    \/ GetCategories
    \/ SearchByCategory
    \/ GetStats

SpecStore == StoreInit /\ [][StoreNext]_vars

\* a file that is a JSON object whose entries all have keywords and content
WellFormed(file) ==
    /\ file.kind = "object"
    /\ \A i \in 1..Len(file.items) :
        file.items[i].keywords # None /\ file.items[i].content # None

\* the table such a file describes: its entries, in the file's order
TableOf(file) ==
    [i \in 1..Len(file.items) |->
        [entry_id |-> file.items[i].entry_id,
         entry |-> KnowledgeEntry(file.items[i].keywords[1], file.items[i].content[1],
                                  file.items[i].category)]]

\* C14 as stated: after a reload, failed or not, the table is the whole table
\* of before the reload or the whole table of the file.
C14_ReloadAtomic ==
    op = "reload" =>
        \/ knowledge_data = kb_pre
        \/ WellFormed(disk) /\ knowledge_data = TableOf(disk)

\* C15: after a reload of an enabled store that raised nothing, the table is
\* the entries of the file as it is then, in the file's order: nothing of the
\* table of before is left.
C15_ReloadMirrorsFile ==
    (op = "reload" /\ kb_enabled /\ raised = "none") =>
        /\ WellFormed(disk)
        /\ knowledge_data = TableOf(disk)

\* C15 witness: the table held "character" and "lore"; the file now holds
\* "character" alone, revised
C15_Witness ==
    /\ op = "reload"
    /\ kb_enabled
    /\ raised = "none"
    /\ kb_pre = TableOf(File("object", <<E_character, E_lore>>))
    /\ disk = File("object", <<E_character_revised>>)
    /\ Len(knowledge_data) = 1
    /\ knowledge_data[1].entry.content = <<"Thorne, revised">>

\* C17: a disabled store holds no entries, whatever the file is and whatever
\* has been called: its constructor and its reload raise nothing, search,
\* get_all_entries, get_categories and search_by_category return empty,
\* get_entry returns None, and get_stats reports enabled false and no entries.
C17_DisabledStoreIsEmpty ==
    ~kb_enabled =>
        /\ knowledge_data = <<>>
        /\ raised = "none"
        /\ op = "search" => (kb_results = <<>> /\ kb_raised = "none")
        /\ op = "get_entry" => ret = None
        /\ op = "get_all_entries" => ret = <<>>
        /\ op = "get_categories" => ret = <<>>
        /\ op = "search_by_category" => ret = <<>>
        /\ op = "get_stats" => ret = [enabled |-> FALSE, total_entries |-> 0]

\* C17 witness: a disabled store, made when there was no file, reloaded once
\* the file had two entries
C17_Witness ==
    /\ ~kb_enabled
    /\ op = "reload"
    /\ disk = File("object", <<E_character, E_lore>>)
    /\ knowledge_data = <<>>

\* C18: the load of an enabled store, by the constructor or by reload, raises
\* FileNotFoundError when there is no file, ValueError when the file is not
\* JSON or when one of its entries lacks keywords or content, and nothing
\* otherwise: no other exception leaves it.
C18_LoadErrors ==
    (kb_enabled /\ op \in {"init", "reload"}) =>
        /\ disk.kind = "absent" => raised = "FileNotFoundError"
        /\ disk.kind = "malformed" => raised = "ValueError"
        /\ (disk.kind = "object" /\ ~WellFormed(disk)) => raised = "ValueError"
        /\ WellFormed(disk) => raised = "none"
        /\ raised \in {"none", "FileNotFoundError", "ValueError"}

\* C18 witness: a reload of a file whose second entry has no content
C18_Witness ==
    /\ kb_enabled
    /\ op = "reload"
    /\ disk = File("object", <<E_lore, E_no_content>>)
    /\ raised = "ValueError"

\* ------------------------------------------------- specification of the session

\* config.system_prompt: none, or one
SYSTEM_PROMPT == <<"You are a helpful assistant.">>
SystemPrompts == {<<>>, SYSTEM_PROMPT}

\* the knowledge files a session starts on: none, one that is not JSON, one with
\* two entries, one whose second entry lacks its content
FILE_GOOD ==
    File("object", <<
        RawEntry("character", Some(<<W_aris, W_thorne>>), Some(<<"Dr. Thorne...">>),
                 Some(<<"character">>)),
        RawEntry("lore", Some(<<W_thorne, W_moon>>), Some(<<"Lore">>), None) >>)
FILE_BAD_ENTRY ==
    File("object", <<
        RawEntry("character", Some(<<W_aris, W_thorne>>), Some(<<"Dr. Thorne...">>),
                 Some(<<"character">>)),
        RawEntry("lore", Some(<<W_thorne, W_moon>>), None, None) >>)
SessionFiles == {File("absent", <<>>), File("malformed", <<>>), FILE_GOOD, FILE_BAD_ENTRY}

Configs ==
    {ChatbotConfig(p, l, r, DefaultRagMaxResults, Ratio(1, 10)) :
        p \in SystemPrompts, l \in 1..MaxLimit, r \in BOOLEAN}

\* the files a session with this config starts on: retrieval switched off never
\* looks at the file, and one file stands for all
StartFiles(cfg) == IF cfg.rag_enabled THEN SessionFiles ELSE {File("absent", <<>>)}

\* what the user types: nothing, whitespace only, or something
BlankInputs == {<<>>, <<" ", "\t">>}
SpokenInputs == {W_hi, SP \o W_aris \o <<"?">>}
UserInputs == BlankInputs \cup SpokenInputs

\* what OllamaClient.generate_response does with a prompt: it returns the
\* model's text, or raises one of its two exceptions, whose str() is text
Answer(text) == [kind |-> "response", text |-> text]
ANSWER_PLAIN == <<"o", "k">>
ANSWER_PREFIXED == <<" ", "B", "o", "t", ":", " ", "o", "k", "\n">>
BackendErrors == {
    [kind |-> "OllamaConnectionError", text |-> <<"Error generating response: Connection failed">>],
    [kind |-> "ModelNotFoundError",
     text |-> <<"Model 'llama2' not found. Make sure it's available in Ollama.">>] }
BackendOutcomes == {Answer(ANSWER_PLAIN), Answer(ANSWER_PREFIXED)} \cup BackendErrors

\* SimpleChatbot(config) for one of the configs given, with the knowledge file
\* as it finds it
InitWith(configs) ==
    \E cfg \in configs : \E file \in StartFiles(cfg) :
        LET made == _initialize_knowledge_base(cfg, file) IN
        /\ config = cfg
        /\ memory_limit = cfg.conversation_memory_limit
        /\ disk = made.disk
        /\ kb_enabled = made.kb.enabled
        /\ knowledge_data = made.kb.knowledge_data
        /\ messages = (IF cfg.system_prompt # <<>>
                       THEN add_message(<<>>, "system", cfg.system_prompt) ELSE <<>>)
        /\ added = <<>>
        /\ pre = <<>>
        /\ op = "init"
        /\ turn_input = <<>>
        /\ outcome = <<>>
        /\ sent = <<>>
        /\ ret = <<>>
        /\ raised = "none"
        /\ kb_query = <<>>
        /\ search_args = <<>>
        /\ kb_results = <<>>
        /\ kb_pre = <<>>
        /\ kb_raised = "none"
        /\ kb_fault = "none"
        /\ CleanIdle
        /\ CallIdle

Init == InitWith(Configs)

\* whether chat(user_input) gets as far as the call of knowledge_base.search
Retrieves(user_input) == ~is_blank(user_input) /\ kb_enabled

\* chatbot.chat(user_input), the backend answering or failing, and the
\* retrieval, where there is one, meeting one of the faults given
ChatWith(faults) ==
    \E user_input \in UserInputs, backend \in BackendOutcomes, f \in faults :
    \E done \in {chat(messages, user_input, backend, f)} :
    \E found \in {rag_results(user_input, f)} :
        /\ f # "none" => Retrieves(user_input)
        /\ messages' = done.messages
        /\ ret' = done.ret
        /\ raised' = done.raised
        /\ sent' = done.sent
        /\ outcome' = (IF done.sent = <<>> THEN <<>> ELSE backend)
        /\ turn_input' = user_input
        /\ pre' = messages
        /\ op' = "chat"
        /\ kb_fault' = f
        /\ kb_query' = (IF Retrieves(user_input) THEN user_input ELSE <<>>)
        /\ search_args' = (IF Retrieves(user_input)
                           THEN [max_results |-> config.rag_max_results,
                                 min_relevance_score |-> config.rag_min_relevance]
                           ELSE <<>>)
        /\ kb_results' = (IF Retrieves(user_input) THEN found.value ELSE <<>>)
        /\ kb_raised' = (IF Retrieves(user_input) THEN found.raised ELSE "none")
        /\ kb_pre' = knowledge_data
        /\ UNCHANGED <<memory_limit, added, cleanVars, kb_enabled, knowledge_data, config, disk, callVars>>

\* chatbot.chat(user_input) with nothing put into the retrieval
Chat == ChatWith({"none"})

\* chatbot.reset_conversation()
ResetConversation ==
    /\ messages' = reset_conversation(messages)
    /\ ret' = <<>>
    /\ raised' = "none"
    /\ sent' = <<>>
    /\ outcome' = <<>>
    /\ turn_input' = <<>>
    /\ pre' = messages
    /\ op' = "reset_conversation"
    /\ kb_query' = <<>>
    /\ search_args' = <<>>
    /\ kb_results' = <<>>
    /\ kb_raised' = "none"
    /\ kb_fault' = "none"
    /\ kb_pre' = knowledge_data
    /\ UNCHANGED <<memory_limit, added, cleanVars, kb_enabled, knowledge_data, config, disk, callVars>>

\* chatbot.reload_knowledge()
ReloadKnowledge ==
    \E done \in {reload_knowledge(kb_enabled, knowledge_data, disk)} :
        /\ knowledge_data' = done.knowledge_data
        /\ ret' = done.ret
        /\ raised' = done.raised
        /\ op' = "reload_knowledge"
        /\ pre' = messages
        /\ kb_pre' = knowledge_data
        /\ sent' = <<>>
        /\ outcome' = <<>>
        /\ turn_input' = <<>>
        /\ NoSearch
        /\ UNCHANGED <<memory_limit, messages, added, cleanVars, kb_enabled, config, disk, callVars>>

Next ==
    \/ Chat
    \/ ResetConversation
    \/ ReloadKnowledge

Spec == Init /\ [][Next]_vars

\* the last n items of a sequence, all of them when it has fewer
LastN(seq, n) == SubSeq(seq, IF Len(seq) > n THEN Len(seq) - n + 1 ELSE 1, Len(seq))

\* the number of messages of a role in a memory
CountRole(msgs, role) == Cardinality({i \in 1..Len(msgs) : msgs[i].role = role})

\* C24: get_recent_messages(n) returns the last min(n, count) messages of the
\* memory, oldest first, for every n >= 0 (none for n = 0), and all of them
\* for None, and leaves the memory as it was.
C24_RecentIsLastN ==
    op = "get_recent_messages" =>
        /\ args.count = None => ret = messages
        /\ args.count # None =>
            ret = LastN(messages, IF args.count[1] < Len(messages)
                                  THEN args.count[1] ELSE Len(messages))
        /\ messages = pre

\* the last chat was a turn with something said, on which the backend failed
FailedTurn ==
    /\ op = "chat"
    /\ turn_input \in SpokenInputs
    /\ outcome \in BackendErrors

\* the last chat was a turn with something said, which the backend answered
AnsweredTurn ==
    /\ op = "chat"
    /\ turn_input \in SpokenInputs
    /\ outcome \in {Answer(ANSWER_PLAIN), Answer(ANSWER_PREFIXED)}

\* C3 as stated: a turn on which the backend fails leaves the memory as it
\* found it.
C3_FailedTurnWritesNothing ==
    FailedTurn => messages = pre

\* C3 as amended: a turn on which the backend fails writes the user message of
\* the turn and nothing else: the memory is what it was, followed by that user
\* message, cut to the last 2*L messages.
C3_FailedTurnWritesUserOnly ==
    FailedTurn =>
        messages = LastN(Append(pre, ChatMessage("user", turn_input)), 2 * memory_limit)

\* C3 witness: the backend has failed on a turn taken with a full memory
C3_Witness ==
    /\ FailedTurn
    /\ Len(pre) = 2 * memory_limit
    /\ messages # pre
    /\ messages[Len(messages)] = ChatMessage("user", turn_input)

C5_BlankInputIsNoTurn ==
    (op = "chat" /\ turn_input \in BlankInputs) =>
        /\ ret = NO_INPUT
        /\ raised = "none"
        /\ messages = pre
        /\ sent = <<>>

\* C5 witness: whitespace-only input, typed after a turn had been answered
C5_Witness ==
    /\ op = "chat"
    /\ turn_input = <<" ", "\t">>
    /\ Len(pre) >= 2
    /\ pre[Len(pre)].role = "assistant"
    /\ ret = NO_INPUT

\* what a backend answer is once cleaned, from the answers the backend gives
CleanedAnswer == <<"o", "k">>

\* C6: on a turn the backend answers, the memory is what it was, followed by
\* the user message with the input and then an assistant message with the
\* cleaned answer (cut to the last 2*L messages), and chat returns the content
\* of that assistant message.
C6_AnsweredTurnStoresBoth ==
    AnsweredTurn =>
        /\ messages = LastN(pre \o <<ChatMessage("user", turn_input),
                                     ChatMessage("assistant", CleanedAnswer)>>,
                            2 * memory_limit)
        /\ Len(messages) >= 2
        /\ ret = messages[Len(messages)].content
        /\ raised = "none"

\* C6 witness: an answer that came with a role prefix and whitespace around it
C6_Witness ==
    /\ AnsweredTurn
    /\ outcome.text = ANSWER_PREFIXED
    /\ ret = <<"o", "k">>
    /\ messages[Len(messages)] = ChatMessage("assistant", <<"o", "k">>)
    /\ messages[Len(messages) - 1] = ChatMessage("user", turn_input)

\* C7: after reset_conversation the memory holds the configured system prompt,
\* as one system message, and nothing else; it is empty when no system prompt
\* is configured.
C7_ResetReseeds ==
    op = "reset_conversation" =>
        messages = (IF config.system_prompt = <<>> THEN <<>>
                    ELSE <<ChatMessage("system", config.system_prompt)>>)

\* C7 witness: a reset of a full memory from which the system message had been
\* evicted
C7_Witness ==
    /\ op = "reset_conversation"
    /\ config.system_prompt = SYSTEM_PROMPT
    /\ Len(pre) = 2 * memory_limit
    /\ CountRole(pre, "system") = 0
    /\ messages = <<ChatMessage("system", SYSTEM_PROMPT)>>

\* whether a prompt holds a context block
HasContext(prompt) == RAG_OPEN[1] \in Range(prompt)

\* the session was constructed with retrieval switched on, on a file that is
\* not JSON or has an entry without keywords or content (no operation of this
\* specification writes the file)
DegradedStart ==
    /\ config.rag_enabled
    /\ disk.kind = "malformed" \/ (disk.kind = "object" /\ ~WellFormed(disk))

\* C19: a session constructed with retrieval switched on, on a knowledge file
\* that does not load, is constructed all the same: its knowledge store is
\* disabled and empty, its memory starts with the system prompt when one is
\* configured, and its turns hand the backend a prompt without context block.
C19_DegradedStartRuns ==
    DegradedStart =>
        /\ ~kb_enabled
        /\ knowledge_data = <<>>
        /\ op = "init" =>
            /\ raised = "none"
            /\ messages = (IF config.system_prompt = <<>> THEN <<>>
                           ELSE <<ChatMessage("system", config.system_prompt)>>)
        /\ (op = "chat" /\ turn_input \in SpokenInputs) =>
            /\ raised = "none"
            /\ Len(sent) = 1
            /\ ~HasContext(sent[1])
            /\ outcome \in BackendOutcomes

\* C19 witness: the second entry of the file had no content; a turn that asks
\* for a keyword of the first entry is answered
C19_Witness ==
    /\ DegradedStart
    /\ disk = FILE_BAD_ENTRY
    /\ config.system_prompt = SYSTEM_PROMPT
    /\ AnsweredTurn
    /\ turn_input = SP \o W_aris \o <<"?">>
    /\ ~HasContext(sent[1])

\* the memory as _format_prompt finds it in the last chat: the user message of
\* the turn has been added
MemoryAtPrompt == LastN(Append(pre, ChatMessage("user", turn_input)), 2 * memory_limit)

\* C20: the prompt handed to the backend is the history block (the memory, the
\* system message included), then the context block when the retrieval has
\* returned results, then "User: " and the input, then "Assistant:", each on
\* a line of its own; the context block starts right after the history block
\* and the prompt ends with "Assistant:".
C20_PromptOrder ==
    (op = "chat" /\ Len(sent) = 1) =>
        LET history == format_for_prompt(MemoryAtPrompt, TRUE)
            context == format_context(kb_results)
            prompt == sent[1]
        IN  /\ history # <<>>
            /\ prompt = history \o NL
                        \o (IF kb_results # <<>> THEN context \o NL ELSE <<>>)
                        \o <<"U", "s", "e", "r", ":", " ">> \o turn_input \o NL
                        \o <<"A", "s", "s", "i", "s", "t", "a", "n", "t", ":">>
            /\ \A i \in 1..Len(prompt) : prompt[i] = RAG_OPEN[1] => i = Len(history) + 2
            /\ HasContext(prompt) <=> kb_results # <<>>
            /\ SubSeq(prompt, Len(prompt) - 9, Len(prompt))
                = <<"A", "s", "s", "i", "s", "t", "a", "n", "t", ":">>

\* C20 witness: a turn with a system message and an earlier turn in the memory,
\* on which the retrieval returned a result
C20_Witness ==
    /\ op = "chat"
    /\ Len(sent) = 1
    /\ Len(pre) >= 3
    /\ pre[1].role = "system"
    /\ Len(kb_results) = 1
    /\ HasContext(sent[1])

\* whether the system prompt is in a prompt
HasSystemPrompt(prompt) == SYSTEM_PROMPT[1] \in Range(prompt)

\* C25: the system message is evicted like any other message. With a system
\* prompt and a limit of one pair, the first answered turn leaves exactly the
\* user message and the assistant message; a turn that finds the memory full
\* with the system message as its oldest evicts it; and a turn that finds no
\* system message in the memory leaves none, in the memory and in the prompt.
C25_SystemMessageEvicted ==
    /\ (AnsweredTurn /\ memory_limit = 1 /\ pre = <<ChatMessage("system", SYSTEM_PROMPT)>>) =>
        messages = <<ChatMessage("user", turn_input), ChatMessage("assistant", ret)>>
    /\ (op = "chat" /\ Len(sent) = 1 /\ Len(pre) = maxlen /\ pre[1].role = "system") =>
        CountRole(messages, "system") = 0
    /\ (op = "chat" /\ CountRole(pre, "system") = 0) =>
        /\ CountRole(messages, "system") = 0
        /\ \A i \in 1..Len(sent) : ~HasSystemPrompt(sent[i])

\* C25 witness: a session with a system prompt and a limit of one pair, in its
\* second turn: the first, which was answered, has left the user message and
\* the assistant message, and the prompt of the second has no system prompt
C25_Witness ==
    /\ op = "chat"
    /\ Len(sent) = 1
    /\ memory_limit = 1
    /\ config.system_prompt = SYSTEM_PROMPT
    /\ Len(pre) = 2
    /\ pre[1].role = "user"
    /\ pre[2].role = "assistant"
    /\ ~HasSystemPrompt(sent[1])
    /\ CountRole(messages, "system") = 0

RECURSIVE LinesFrom(_, _, _)
\* the lines of a text from position i on, line being the line begun so far
LinesFrom(text, i, line) ==
    IF i > Len(text) THEN <<line>>
    ELSE IF text[i] = "\n" THEN <<line>> \o LinesFrom(text, i + 1, <<>>)
    ELSE LinesFrom(text, i + 1, Append(line, text[i]))

\* the lines of a text
Lines(text) == LinesFrom(text, 1, <<>>)

\* C26: in a turn that gets as far as the backend, the last line of the
\* history block of the prompt is "User: " and the input of the turn, and so
\* is the line before "Assistant:", which is a later line: the input is in the
\* prompt twice.
C26_InputTwiceInPrompt ==
    (op = "chat" /\ Len(sent) = 1) =>
        LET ls == Lines(sent[1])
            h == Len(Lines(format_for_prompt(MemoryAtPrompt, TRUE)))
        IN  /\ 1 <= h
            /\ h < Len(ls) - 1
            /\ SubSeq(ls, 1, h) = Lines(format_for_prompt(MemoryAtPrompt, TRUE))
            /\ ls[h] = USER_LINE(turn_input)
            /\ ls[Len(ls) - 1] = USER_LINE(turn_input)
            /\ ls[Len(ls)] = ASSISTANT_CUE
            /\ Cardinality({i \in 1..Len(ls) : ls[i] = USER_LINE(turn_input)}) >= 2

\* C26 witness: the first turn of a session without system prompt, with a
\* context block: the prompt is the user line, the block, the user line again
\* and "Assistant:"
C26_Witness ==
    /\ op = "chat"
    /\ Len(sent) = 1
    /\ pre = <<>>
    /\ Len(kb_results) = 1
    /\ Lines(sent[1])[1] = USER_LINE(turn_input)
    /\ Lines(sent[1])[2] = RAG_OPEN
    /\ Lines(sent[1])[4] = RAG_CLOSE
    /\ Lines(sent[1])[5] = USER_LINE(turn_input)
    /\ Len(Lines(sent[1])) = 6

\* C27: in every state of a session, every assistant message of the memory is
\* the oldest message or comes right after a user message, so that no two
\* assistant messages are neighbours, and the memory holds at most as many
\* assistant messages as the limit of pairs.
C27_AssistantFollowsUser ==
    /\ \A i \in 1..Len(messages) :
        messages[i].role = "assistant" => (i = 1 \/ messages[i - 1].role = "user")
    /\ \A i \in 1..(Len(messages) - 1) :
        ~(messages[i].role = "assistant" /\ messages[i + 1].role = "assistant")
    /\ CountRole(messages, "assistant") <= memory_limit

\* C27 witness: after a failed turn, a blank input and a reload of the
\* knowledge the memory of a session with a limit of two pairs is full, starts
\* with an assistant message and has two user messages in a row
C27_Witness ==
    /\ op = "reload_knowledge"
    /\ memory_limit = 2
    /\ Len(messages) = 4
    /\ messages[1].role = "assistant"
    /\ messages[2].role = "user"
    /\ messages[3].role = "user"
    /\ messages[4].role = "user"

\* the words of an input, lower-cased and without their punctuation, that are
\* a keyword of some entry of the knowledge table
SharedWords(user_input) ==
    {strip_chars(w, Punctuation) : w \in Range(split(lower(user_input)))}
        \cap UNION {DistinctLowered(knowledge_data[i].entry) : i \in 1..Len(knowledge_data)}

\* C21: when the input of a turn shares no keyword with any entry of the
\* knowledge table, the search returns no result, the context block is empty
\* (the prompt is the history block, the user line and "Assistant:" and
\* nothing else) and the prompt holds neither marker line.
C21_NoOverlapNoContext ==
    (op = "chat" /\ Len(sent) = 1 /\ SharedWords(turn_input) = {}) =>
        /\ kb_results = <<>>
        /\ RAG_OPEN[1] \notin Range(sent[1])
        /\ RAG_CLOSE[1] \notin Range(sent[1])
        /\ sent[1] = format_for_prompt(MemoryAtPrompt, TRUE) \o NL
                        \o USER_LINE(turn_input) \o NL \o ASSISTANT_CUE

\* C21 witness: the store is enabled and holds two entries, and the input "hi"
\* is a keyword of neither
C21_Witness ==
    /\ op = "chat"
    /\ Len(sent) = 1
    /\ kb_enabled
    /\ Len(knowledge_data) = 2
    /\ turn_input = W_hi
    /\ kb_query = W_hi
    /\ SharedWords(turn_input) = {}
    /\ kb_results = <<>>

\* ------------------------- specification of the session and its knowledge file

\* a session with a system prompt and a memory of one pair, with and without
\* retrieval
RefreshConfigs ==
    {ChatbotConfig(SYSTEM_PROMPT, 1, r, DefaultRagMaxResults, Ratio(1, 10)) : r \in BOOLEAN}

RefreshInit == InitWith(RefreshConfigs)

\* the knowledge file of the session is edited, replaced or removed
SessionWriteFile == WriteFileIn(SessionFiles)

\* chatbot.chat(user_input), an exception put into the retrieval or not
FaultyChat == ChatWith(RetrievalFaults)

\* a call that reads the session: done is what it leaves
SessionRead(name, done) ==
    /\ op' = name
    /\ ret' = done.ret
    /\ raised' = "none"
    /\ messages' = done.messages
    /\ knowledge_data' = done.knowledge_data
    /\ pre' = messages
    /\ kb_pre' = knowledge_data
    /\ sent' = <<>>
    /\ outcome' = <<>>
    /\ turn_input' = <<>>
    /\ NoSearch
    /\ UNCHANGED <<memory_limit, added, cleanVars, kb_enabled, config, disk, callVars>>

GetConversationStats ==
    SessionRead("get_conversation_stats",
                get_conversation_stats(messages, kb_enabled, knowledge_data))
GetConversationHistory ==
    \E format_for_display \in BOOLEAN :
        SessionRead("get_conversation_history",
                    get_conversation_history(messages, format_for_display, knowledge_data))
SearchKnowledge ==
    \E query \in UserInputs :
        SessionRead("search_knowledge",
                    search_knowledge(messages, kb_enabled, knowledge_data, query))
GetKnowledgeStats ==
    SessionRead("get_knowledge_stats", get_knowledge_stats(messages, kb_enabled, knowledge_data))
GetKnowledgeCategories ==
    SessionRead("get_knowledge_categories",
                get_knowledge_categories(messages, kb_enabled, knowledge_data))

RefreshNext ==
    \/ FaultyChat
    \/ SessionWriteFile
    \/ ReloadKnowledge
    \/ ResetConversation
    \/ GetConversationStats
    \/ GetConversationHistory
    \/ SearchKnowledge
    \/ GetKnowledgeStats
    \/ GetKnowledgeCategories

SpecRefresh == RefreshInit /\ [][RefreshNext]_vars

\* C16: reload_knowledge raises nothing; it returns True when the store's
\* reload succeeds (the file is well-formed, or the store is disabled and
\* reload does nothing) and False when it fails; it leaves the conversation
\* memory as it found it, and a chat with something said, whatever reloads
\* came before it, raises nothing and reaches the backend.
C16_ReloadKnowledgeReportsAndSpares ==
    /\ op = "reload_knowledge" =>
        /\ raised = "none"
        /\ ret = (~kb_enabled \/ WellFormed(disk))
        /\ messages = pre
    /\ (op = "chat" /\ turn_input \in SpokenInputs) =>
        /\ raised = "none"
        /\ Len(sent) = 1
        /\ outcome \in BackendOutcomes

\* C16 witness: after an answered turn the file is found not to be JSON, and
\* reload_knowledge returns False with the memory as it was
C16_Witness ==
    /\ op = "reload_knowledge"
    /\ kb_enabled
    /\ disk.kind = "malformed"
    /\ ret = FALSE
    /\ Len(pre) = 2
    /\ pre[2].role = "assistant"
    /\ messages = pre

\* a step of a session whose knowledge store is disabled leaves it disabled and
\* empty, hands the backend no context block and, when it is reload_knowledge,
\* returns True
StaysDisabled ==
    ~kb_enabled =>
        /\ ~kb_enabled'
        /\ knowledge_data' = <<>>
        /\ \A i \in 1..Len(sent') : ~HasContext(sent'[i])
        /\ op' = "reload_knowledge" => (ret' = TRUE /\ raised' = "none")

\* C29: a knowledge store that is disabled, by the configuration or by a failed
\* load at construction, is empty, and no chat, reset_conversation,
\* reload_knowledge or edit of the file enables it again: it stays disabled and
\* empty, no prompt has a context block, and reload_knowledge returns True.
C29_DisabledForGood ==
    /\ [](~kb_enabled => knowledge_data = <<>>)
    /\ [][StaysDisabled]_vars

\* C29 witness: retrieval was switched on and the file did not load; the file
\* has since been put right, a turn has asked for one of its keywords, and
\* reload_knowledge has returned True with the table still empty
C29_Witness ==
    /\ op = "reload_knowledge"
    /\ config.rag_enabled
    /\ ~kb_enabled
    /\ disk = FILE_GOOD
    /\ ret = TRUE
    /\ knowledge_data = <<>>
    /\ Len(messages) = 2
    /\ messages[1] = ChatMessage("user", SP \o W_aris \o <<"?">>)

\* the operations of a session that read it
SessionReads ==
    {"get_conversation_stats", "get_conversation_history", "search_knowledge",
     "get_knowledge_stats", "get_knowledge_categories"}

\* C28: get_conversation_stats, get_conversation_history (in both formats),
\* search_knowledge, get_knowledge_stats and get_knowledge_categories leave
\* the memory and the knowledge table as they found them, and chat and
\* reset_conversation leave the knowledge table as they found it.
C28_ReadsChangeNothing ==
    /\ op \in SessionReads => (messages = pre /\ knowledge_data = kb_pre)
    /\ op \in {"chat", "reset_conversation"} => knowledge_data = kb_pre

\* C28 witness: the history of one answered turn is read for display, in a
\* session whose knowledge table holds two entries
C28_Witness ==
    /\ op = "get_conversation_history"
    /\ ret = YOU \o SP \o W_aris \o <<"?">> \o NL \o BOT \o CleanedAnswer
    /\ Len(messages) = 2
    /\ messages = pre
    /\ Len(knowledge_data) = 2
    /\ knowledge_data = kb_pre

\* the last chat was a turn on which an exception was put into the retrieval
FaultedRetrieval ==
    /\ op = "chat"
    /\ kb_fault # "none"

\* C13: an exception in the retrieval does not abort the turn.  Raised inside
\* the try block of search, it leaves search returning an empty list and
\* raising nothing; raised there or by the call of search, it leaves chat
\* raising nothing: the prompt is built without a context block and handed to
\* the backend, and the turn ends as any other, with the cleaned answer
\* returned and stored or with the apology returned.
C13_RetrievalNeverAborts ==
    FaultedRetrieval =>
        /\ kb_fault = "scoring" => (kb_raised = "none" /\ kb_results = <<>>)
        /\ raised = "none"
        /\ Len(sent) = 1
        /\ ~HasContext(sent[1])
        /\ outcome \in BackendOutcomes
        /\ outcome.kind = "response" =>
            /\ ret = CleanedAnswer
            /\ messages[Len(messages)] = ChatMessage("assistant", CleanedAnswer)
        /\ outcome.kind # "response" =>
            /\ ret = APOLOGY \o outcome.text
            /\ messages[Len(messages)] = ChatMessage("user", turn_input)

\* C13 witness: the call of search raised on a query that has a match in the
\* table, and the turn was answered
C13_Witness ==
    /\ FaultedRetrieval
    /\ kb_fault = "search"
    /\ search_try(knowledge_data, kb_query, search_args.max_results,
                  search_args.min_relevance_score) # <<>>
    /\ outcome = Answer(ANSWER_PLAIN)
    /\ ret = CleanedAnswer
    /\ Len(sent) = 1

\* ------------------------------ specification of chat, statement by statement

\* whether a call of chat is under way
Running == steps # <<>> /\ steps[Len(steps)] # "return"

\* the statement of chat to be executed now
Upcoming == chat_next(steps[Len(steps)], turn_input, outcome)

\* what the statements of chat leave alone
TurnFrame == <<memory_limit, added, parts, recleaned, kbVars, config, disk, args, pre, op>>

TurnInit == InitWith(RefreshConfigs)

\* chatbot.chat(user_input) is called
TurnCall ==
    \E user_input \in UserInputs :
        /\ ~Running
        /\ steps' = <<"call">>
        /\ turn_input' = user_input
        /\ pre' = messages
        /\ op' = "chat"
        /\ turn_prompt' = <<>>
        /\ response' = <<>>
        /\ cleaned' = <<>>
        /\ outcome' = <<>>
        /\ sent' = <<>>
        /\ ret' = <<>>
        /\ raised' = "none"
        /\ UNCHANGED <<memory_limit, messages, added, parts, recleaned, kbVars, config, disk, args>>

\* self.memory.add_user_message(user_input)
TurnAddUserMessage ==
    /\ Running
    /\ Upcoming = "add_user_message"
    /\ steps' = Append(steps, "add_user_message")
    /\ messages' = add_user_message(messages, turn_input)
    /\ UNCHANGED <<TurnFrame, turn_input, turn_prompt, response, cleaned, outcome, sent, ret, raised>>

\* formatted_prompt = self._format_prompt(user_input)
TurnFormatPrompt ==
    /\ Running
    /\ Upcoming = "_format_prompt"
    /\ steps' = Append(steps, "_format_prompt")
    /\ turn_prompt' = _format_prompt(messages, turn_input, "none").value
    /\ UNCHANGED <<TurnFrame, messages, turn_input, response, cleaned, outcome, sent, ret, raised>>

\* response = self.llm_client.generate_response(formatted_prompt), which
\* returns a text or raises
TurnGenerateResponse ==
    \E backend \in BackendOutcomes :
        /\ Running
        /\ Upcoming = "generate_response"
        /\ steps' = Append(steps, "generate_response")
        /\ sent' = Append(sent, turn_prompt)
        /\ outcome' = backend
        /\ response' = (IF backend.kind = "response" THEN backend.text ELSE <<>>)
        /\ UNCHANGED <<TurnFrame, messages, turn_input, turn_prompt, cleaned, ret, raised>>

\* cleaned_response = self._clean_response(response)
TurnCleanResponse ==
    /\ Running
    /\ Upcoming = "_clean_response"
    /\ steps' = Append(steps, "_clean_response")
    /\ cleaned' = _clean_response(response)
    /\ UNCHANGED <<TurnFrame, messages, turn_input, turn_prompt, response, outcome, sent, ret, raised>>

\* self.memory.add_assistant_message(cleaned_response)
TurnAddAssistantMessage ==
    /\ Running
    /\ Upcoming = "add_assistant_message"
    /\ steps' = Append(steps, "add_assistant_message")
    /\ messages' = add_assistant_message(messages, cleaned)
    /\ UNCHANGED <<TurnFrame, turn_input, turn_prompt, response, cleaned, outcome, sent, ret, raised>>

\* except (OllamaConnectionError, ModelNotFoundError) as e
TurnExcept ==
    /\ Running
    /\ Upcoming = "except"
    /\ steps' = Append(steps, "except")
    /\ UNCHANGED <<TurnFrame, messages, turn_input, turn_prompt, response, cleaned, outcome, sent>>
    /\ UNCHANGED <<ret, raised>>

\* the return statement reached: of the blank input, of the try block or of the
\* except block
TurnReturn ==
    /\ Running
    /\ Upcoming = "return"
    /\ steps' = Append(steps, "return")
    /\ ret' = (IF is_blank(turn_input) THEN NO_INPUT
               ELSE IF outcome.kind = "response" THEN cleaned
               ELSE APOLOGY \o outcome.text)
    /\ UNCHANGED <<TurnFrame, messages, turn_input, turn_prompt, response, cleaned, outcome, sent>>
    /\ UNCHANGED raised

TurnNext ==
    \/ TurnCall
    \/ TurnAddUserMessage
    \/ TurnFormatPrompt
    \/ TurnGenerateResponse
    \/ TurnCleanResponse
    \/ TurnAddAssistantMessage
    \/ TurnExcept
    \/ TurnReturn

SpecTurn == TurnInit /\ [][TurnNext]_vars

\* the statements of a call of chat, in order: on blank input, with the
\* backend answering, with the backend failing
BlankOrder == <<"call", "return">>
AnsweredOrder ==
    <<"call", "add_user_message", "_format_prompt", "generate_response",
      "_clean_response", "add_assistant_message", "return">>
FailedOrder ==
    <<"call", "add_user_message", "_format_prompt", "generate_response", "except", "return">>

\* whether a sequence is the beginning of another
IsPrefix(short, long) == Len(short) <= Len(long) /\ SubSeq(long, 1, Len(short)) = short

\* how many times a statement has been executed in the call
Times(name) == Cardinality({i \in 1..Len(steps) : steps[i] = name})

\* C22: in a call of chat on input that is not blank, the user message is
\* appended, then the prompt is built with the retrieval, then the backend is
\* called, then the response is cleaned, then the assistant message is
\* appended, then the value is returned; the backend is called once, with the
\* prompt built, and as long as it has not returned a response the newest
\* message of the memory is the user message of the turn.  A call that has
\* returned has left what chat leaves as a whole.
C22_StepsInOrder ==
    steps # <<>> =>
        /\ is_blank(turn_input) => IsPrefix(steps, BlankOrder)
        /\ ~is_blank(turn_input) =>
            /\ IsPrefix(steps, AnsweredOrder) \/ IsPrefix(steps, FailedOrder)
            /\ Times("generate_response") <= 1
            /\ Len(sent) = Times("generate_response")
            /\ Times("generate_response") = 1 => sent = <<turn_prompt>>
            /\ Times("_format_prompt") = 1 =>
                turn_prompt = _format_prompt(MemoryAtPrompt, turn_input, "none").value
            /\ Times("add_user_message") = 0 => messages = pre
            /\ (Times("add_user_message") = 1 /\ Times("add_assistant_message") = 0) =>
                messages = MemoryAtPrompt
            /\ Times("add_assistant_message") = 1 =>
                /\ outcome.kind = "response"
                /\ messages[Len(messages)] = ChatMessage("assistant", _clean_response(outcome.text))
            /\ steps[Len(steps)] = "return" => Times("generate_response") = 1
        /\ steps[Len(steps)] = "return" =>
            /\ messages = chat(pre, turn_input, outcome, "none").messages
            /\ ret = chat(pre, turn_input, outcome, "none").ret
            /\ sent = chat(pre, turn_input, outcome, "none").sent

\* C22 witness: a call on " aris?" that the backend answered with a prefixed
\* response has returned, after its seven statements, with a context block in
\* the one prompt it sent
C22_Witness ==
    /\ steps = AnsweredOrder
    /\ turn_input = SP \o W_aris \o <<"?">>
    /\ outcome = Answer(ANSWER_PREFIXED)
    /\ Len(sent) = 1
    /\ HasContext(sent[1])
    /\ ret = CleanedAnswer
    /\ messages[Len(messages)] = ChatMessage("assistant", CleanedAnswer)

====
